---- MODULE Spec2Model ----
(***************************************************************************)
(* Model of lib/CodeGen/LiveInterval.cpp: the segmented live range         *)
(* (LiveRange), its value-number table, and the LiveRangeUpdater.          *)
(*                                                                         *)
(* Iterators into the segment vector are 1-based indexes; end() of a       *)
(* vector segs is Len(segs)+1.  A VNInfo pointer is a handle into the      *)
(* arena vni (1-based); nullptr is 0.  A failed assert halts the program:  *)
(* the operation leaves the state as it was and records the failure in     *)
(* err, after which no operation runs.                                     *)
(***************************************************************************)
EXTENDS Integers, Sequences, FiniteSets, TLC

\* Bounds of the model.
MaxSlot == 7        \* slot indexes are 0..MaxSlot
MaxVN == 2          \* number of VNInfo objects the arena can hand out
MaxCalls == 4       \* length of the call sequences explored from empty
MaxAdds == 2        \* segments added in one updater session
MaxOtherVN == 1     \* value numbers of the other range of a join
JoinTop == 3        \* the other range of a join lies in the slots 0..JoinTop
MaxSlotList == 2    \* length of the slot lists of isLiveAtIndexes

\* SlotIndex: four slots per instruction (block/base, early-clobber,
\* register, dead), in this order.
SlotsPerInstr == 4
InvalidSlot == -1
nullptr == 0

Slots == 0..MaxSlot

isValid(s) == s # InvalidSlot
isBlock(s) == s % SlotsPerInstr = 0
isDead(s) == s % SlotsPerInstr = SlotsPerInstr - 1
getDeadSlot(s) == (s \div SlotsPerInstr) * SlotsPerInstr + (SlotsPerInstr - 1)
getPrevSlot(s) == s - 1
getNextSlot(s) == s + 1
isSameInstr(a, b) == (a \div SlotsPerInstr) = (b \div SlotsPerInstr)
isEarlierInstr(a, b) == (a \div SlotsPerInstr) < (b \div SlotsPerInstr)

Min(a, b) == IF a < b THEN a ELSE b
Max(a, b) == IF a > b THEN a ELSE b

\* LiveRange::Segment
Segment(s, e, v) == [start |-> s, end |-> e, valno |-> v]

\* VNInfo
VNInfo(i, d) == [id |-> i, def |-> d, unused |-> FALSE, phi |-> FALSE]

\* std::vector::erase(first, last) and std::vector::insert(pos, x)
Erase(segs, first, last) ==
  SubSeq(segs, 1, first - 1) \o SubSeq(segs, last, Len(segs))
Insert(segs, pos, x) ==
  SubSeq(segs, 1, pos - 1) \o <<x>> \o SubSeq(segs, pos, Len(segs))

----------------------------------------------------------------------------
\* Searches

\* The loop of find with the test Pos <= end in place of Pos < end.
RECURSIVE findLoopInclusive(_, _, _, _)
findLoopInclusive(segs, Pos, I, Length) ==
  IF Length = 0 THEN I
  ELSE LET Mid == Length \div 2 IN
       IF Pos <= segs[I + Mid].end
       THEN findLoopInclusive(segs, Pos, I, Mid)
       ELSE findLoopInclusive(segs, Pos, I + Mid + 1, Length - (Mid + 1))

\* The loop of LiveRange::find.
RECURSIVE findLoop(_, _, _, _)
findLoop(segs, Pos, I, Length) ==
  IF Length = 0 THEN I
  ELSE LET Mid == Length \div 2 IN
       IF Pos < segs[I + Mid].end
       THEN findLoop(segs, Pos, I, Mid)
       ELSE findLoop(segs, Pos, I + Mid + 1, Length - (Mid + 1))

\* LiveRange::find
find(segs, Pos) ==
  IF segs = <<>> \/ Pos >= segs[Len(segs)].end
  THEN Len(segs) + 1
  ELSE findLoop(segs, Pos, 1, Len(segs))

\* std::upper_bound(first, last, V) with V < Segment meaning V < S.start
RECURSIVE upper_bound(_, _, _, _)
upper_bound(segs, first, Length, V) ==
  IF Length <= 0 THEN first
  ELSE LET half == Length \div 2
           middle == first + half IN
       IF V < segs[middle].start
       THEN upper_bound(segs, first, half, V)
       ELSE upper_bound(segs, middle + 1, Length - half - 1, V)

\* CalcLiveRangeUtilVector::findInsertPos
findInsertPos(segs, S) == upper_bound(segs, 1, Len(segs), S.start)

----------------------------------------------------------------------------
\* CalcLiveRangeUtilBase on the segment vector

RECURSIVE MergeToForward(_, _, _)
MergeToForward(segs, M, NewEnd) ==
  IF M <= Len(segs) /\ NewEnd >= segs[M].end
  THEN MergeToForward(segs, M + 1, NewEnd)
  ELSE M

\* extendSegmentEndTo without the merge of the segment after the extended
\* one when the two touch and have the same value number.
extendSegmentEndToNoTouch(segs, I, NewEnd) ==
  LET ValNo == segs[I].valno
      MergeTo == MergeToForward(segs, I + 1, NewEnd)
      ok == \A k \in (I + 1)..(MergeTo - 1) : segs[k].valno = ValNo
      E1 == Max(NewEnd, segs[MergeTo - 1].end)
  IN IF ~ok
     THEN [segs |-> segs, err |-> "OverlapMismatch"]
     ELSE [segs |-> Erase([segs EXCEPT ![I].end = E1], I + 1, MergeTo),
           err |-> "none"]

\* extendSegmentEndTo(I, NewEnd)
extendSegmentEndTo(segs, I, NewEnd) ==
  LET ValNo == segs[I].valno
      MergeTo == MergeToForward(segs, I + 1, NewEnd)
      ok == \A k \in (I + 1)..(MergeTo - 1) : segs[k].valno = ValNo
      E1 == Max(NewEnd, segs[MergeTo - 1].end)
      touch == /\ MergeTo <= Len(segs)
               /\ segs[MergeTo].start <= E1
               /\ segs[MergeTo].valno = ValNo
      E2 == IF touch THEN segs[MergeTo].end ELSE E1
      MergeTo2 == IF touch THEN MergeTo + 1 ELSE MergeTo
  IN IF ~ok
     THEN [segs |-> segs, err |-> "OverlapMismatch"]
     ELSE [segs |-> Erase([segs EXCEPT ![I].end = E2], I + 1, MergeTo2),
           err |-> "none"]

\* The do-while of extendSegmentStartTo: walks MergeTo backwards from M.
\* kind "begin": the walk reached begin() at M; "stop": it stopped at M.
RECURSIVE MergeToBackward(_, _, _, _)
MergeToBackward(segs, M, NewStart, ValNo) ==
  IF M = 1 THEN [kind |-> "begin", at |-> M]
  ELSE IF segs[M].valno # ValNo THEN [kind |-> "assert", at |-> M]
  ELSE IF NewStart <= segs[M - 1].start
       THEN MergeToBackward(segs, M - 1, NewStart, ValNo)
       ELSE [kind |-> "stop", at |-> M - 1]

\* extendSegmentStartTo(I, NewStart).  stale: the returned iterator was
\* invalidated by the erase in front of it.
extendSegmentStartTo(segs, I, NewStart) ==
  LET ValNo == segs[I].valno
      w == MergeToBackward(segs, I, NewStart, ValNo)
      M == w.at
  IN CASE w.kind = "assert" ->
            [segs |-> segs, it |-> I, stale |-> FALSE, err |-> "OverlapMismatch"]
       [] w.kind = "begin" ->
            [segs |-> Erase([segs EXCEPT ![I].start = NewStart], 1, I),
             it |-> I, stale |-> (I # 1), err |-> "none"]
       [] OTHER ->
            IF segs[M].end >= NewStart /\ segs[M].valno = ValNo
            THEN [segs |-> Erase([segs EXCEPT ![M].end = segs[I].end],
                                 M + 1, I + 1),
                  it |-> M, stale |-> FALSE, err |-> "none"]
            ELSE [segs |-> Erase([segs EXCEPT ![M + 1].start = NewStart,
                                              ![M + 1].end = segs[I].end],
                                 M + 2, I + 1),
                  it |-> M + 1, stale |-> FALSE, err |-> "none"]

\* addSegment(S): the second half, from "if (I != segments().end())".
addSegmentAtI(segs, S, I) ==
  IF I <= Len(segs) /\ S.valno = segs[I].valno /\ segs[I].start <= S.end
  THEN LET r == extendSegmentStartTo(segs, I, S.start) IN
       IF r.err # "none" THEN [segs |-> segs, err |-> r.err]
       ELSE IF r.stale THEN [segs |-> segs, err |-> "StaleIterator"]
       ELSE IF S.end > r.segs[r.it].end
            THEN LET q == extendSegmentEndTo(r.segs, r.it, S.end) IN
                 IF q.err # "none" THEN [segs |-> segs, err |-> q.err] ELSE q
            ELSE [segs |-> r.segs, err |-> "none"]
  ELSE IF I <= Len(segs) /\ S.valno # segs[I].valno /\ ~(segs[I].start >= S.end)
  THEN [segs |-> segs, err |-> "OverlapMismatch"]
  ELSE [segs |-> Insert(segs, I, S), err |-> "none"]

\* addSegment(S)
addSegment(segs, S) ==
  LET I == findInsertPos(segs, S)
      B == I - 1
  IN IF I # 1 /\ S.valno = segs[B].valno
          /\ segs[B].start <= S.start /\ segs[B].end >= S.start
     THEN extendSegmentEndTo(segs, B, S.end)
     ELSE IF I # 1 /\ S.valno # segs[B].valno /\ ~(segs[B].end <= S.start)
     THEN [segs |-> segs, err |-> "OverlapMismatch"]
     ELSE addSegmentAtI(segs, S, I)

\* LiveRange::append with the test end < start in place of end <= start.
appendStrict(segs, S) ==
  IF segs = <<>> \/ segs[Len(segs)].end < S.start
  THEN [segs |-> Append(segs, S), err |-> "none"]
  ELSE [segs |-> segs, err |-> "OrderViolation"]

\* LiveRange::append
append(segs, S) ==
  IF segs = <<>> \/ segs[Len(segs)].end <= S.start
  THEN [segs |-> Append(segs, S), err |-> "none"]
  ELSE [segs |-> segs, err |-> "OrderViolation"]

\* The result of createDeadDef: the range, the returned VNInfo, the assert.
DefResult(lr, r, e) ==
  [segments |-> lr.segments, valnos |-> lr.valnos, vni |-> lr.vni,
   ret |-> r, err |-> e]

\* createDeadDef with the dead segment of the new value pushed at the end
\* of the vector wherever I points.
newDeadDefAtEnd(lr, I, Def) ==
  DefResult([segments |-> Append(lr.segments,
                                 Segment(Def, getDeadSlot(Def), Len(lr.vni) + 1)),
             valnos |-> Append(lr.valnos, Len(lr.vni) + 1),
             vni |-> Append(lr.vni, VNInfo(Len(lr.valnos), Def))],
            Len(lr.vni) + 1, "none")

\* createDeadDef: LR->getNextValue(Def, VNInfoAllocator) allocates the
\* VNInfo with id valnos.size() and the segment [Def, Def.getDeadSlot()) of
\* it is inserted at I (insertAtEnd when I is end()).
newDeadDef(lr, I, Def) ==
  DefResult([segments |-> Insert(lr.segments, I,
                                 Segment(Def, getDeadSlot(Def), Len(lr.vni) + 1)),
             valnos |-> Append(lr.valnos, Len(lr.vni) + 1),
             vni |-> Append(lr.vni, VNInfo(Len(lr.valnos), Def))],
            Len(lr.vni) + 1, "none")

\* The early-clobber conversion of createDeadDef with the start and the def
\* written whatever Def is.
promoteDefAlways(lr, I, Def) ==
  IF lr.vni[lr.segments[I].valno].def # lr.segments[I].start
  THEN DefResult(lr, nullptr, "InconsistentDef")
  ELSE DefResult([lr EXCEPT !.segments[I].start = Def,
                            !.vni[lr.segments[I].valno].def = Def],
                 lr.segments[I].valno, "none")

\* createDeadDef when Def and the start of S = segments[I] are on the same
\* instruction: everything is converted to early-clobber.
promoteDef(lr, I, Def) ==
  IF lr.vni[lr.segments[I].valno].def # lr.segments[I].start
  THEN DefResult(lr, nullptr, "InconsistentDef")
  ELSE IF Min(Def, lr.segments[I].start) # lr.segments[I].start
  THEN DefResult([lr EXCEPT
                    !.segments[I].start = Min(Def, lr.segments[I].start),
                    !.vni[lr.segments[I].valno].def =
                       Min(Def, lr.segments[I].start)],
                 lr.segments[I].valno, "none")
  ELSE DefResult(lr, lr.segments[I].valno, "none")

\* createDeadDef(Def, VNInfoAllocator)
createDeadDef(lr, Def) ==
  LET I == find(lr.segments, Def) IN
  IF isDead(Def) THEN DefResult(lr, nullptr, "DeadSlotDef")
  ELSE IF I = Len(lr.segments) + 1 THEN newDeadDef(lr, I, Def)
  ELSE IF isSameInstr(Def, lr.segments[I].start) THEN promoteDef(lr, I, Def)
  ELSE IF ~isEarlierInstr(Def, lr.segments[I].start)
  THEN DefResult(lr, nullptr, "AlreadyLive")
  ELSE newDeadDef(lr, I, Def)

\* extendInBlock with the insert position searched for a segment starting
\* at Use in place of Use.getPrevSlot().
extendInBlockAtUse(segs, StartIdx, Use) ==
  LET P == findInsertPos(segs, Segment(Use, Use, nullptr))
      I == P - 1
      none == [segs |-> segs, ret |-> nullptr, err |-> "none"]
  IN IF segs = <<>> THEN none
     ELSE IF P = 1 THEN none
     ELSE IF segs[I].end <= StartIdx THEN none
     ELSE IF segs[I].end < Use
          THEN LET r == extendSegmentEndTo(segs, I, Use) IN
               [segs |-> r.segs, ret |-> IF r.err = "none" THEN segs[I].valno
                                          ELSE nullptr, err |-> r.err]
          ELSE [segs |-> segs, ret |-> segs[I].valno, err |-> "none"]

\* extendInBlock with the test I->end < StartIdx in place of
\* I->end <= StartIdx.
extendInBlockStrict(segs, StartIdx, Use) ==
  LET P == findInsertPos(segs, Segment(getPrevSlot(Use), Use, nullptr))
      I == P - 1
      none == [segs |-> segs, ret |-> nullptr, err |-> "none"]
  IN IF segs = <<>> THEN none
     ELSE IF P = 1 THEN none
     ELSE IF segs[I].end < StartIdx THEN none
     ELSE IF segs[I].end < Use
          THEN LET r == extendSegmentEndTo(segs, I, Use) IN
               [segs |-> r.segs, ret |-> IF r.err = "none" THEN segs[I].valno
                                          ELSE nullptr, err |-> r.err]
          ELSE [segs |-> segs, ret |-> segs[I].valno, err |-> "none"]

\* extendInBlock(StartIdx, Use)
extendInBlock(segs, StartIdx, Use) ==
  LET P == findInsertPos(segs, Segment(getPrevSlot(Use), Use, nullptr))
      I == P - 1
      none == [segs |-> segs, ret |-> nullptr, err |-> "none"]
  IN IF segs = <<>> THEN none
     ELSE IF P = 1 THEN none
     ELSE IF segs[I].end <= StartIdx THEN none
     ELSE IF segs[I].end < Use
          THEN LET r == extendSegmentEndTo(segs, I, Use) IN
               [segs |-> r.segs, ret |-> IF r.err = "none" THEN segs[I].valno
                                          ELSE nullptr, err |-> r.err]
          ELSE [segs |-> segs, ret |-> segs[I].valno, err |-> "none"]

----------------------------------------------------------------------------
\* LiveRange methods.  lr is a record [segments, valnos, vni].

LRof(segs, vals, arena) == [segments |-> segs, valnos |-> vals, vni |-> arena]

\* LiveRange::verify: TRUE iff no assert of verify() fires.
verify(segs, vals, arena) ==
  \A I \in 1..Len(segs) :
    /\ isValid(segs[I].start)
    /\ isValid(segs[I].end)
    /\ segs[I].start < segs[I].end
    /\ segs[I].valno # nullptr
    /\ arena[segs[I].valno].id < Len(vals)
    /\ segs[I].valno = vals[arena[segs[I].valno].id + 1]
    /\ (I + 1 <= Len(segs) =>
          /\ segs[I].end <= segs[I + 1].start
          /\ (segs[I].end = segs[I + 1].start =>
                segs[I].valno # segs[I + 1].valno))

\* The do-while of markValNoForDeletion stopped after its first pop_back.
popUnusedNone(vals, arena) == vals

\* The do-while of markValNoForDeletion.
RECURSIVE popUnused(_, _)
popUnused(vals, arena) ==
  IF vals # <<>> /\ arena[vals[Len(vals)]].unused
  THEN popUnused(SubSeq(vals, 1, Len(vals) - 1), arena)
  ELSE vals

\* markValNoForDeletion without the test that ValNo is the largest value
\* number: the table is popped whatever ValNo is.
markValNoForDeletionAlwaysPop(lr, ValNo) ==
  [lr EXCEPT !.valnos =
     popUnused(SubSeq(lr.valnos, 1, Len(lr.valnos) - 1), lr.vni)]

\* LiveRange::markValNoForDeletion
markValNoForDeletion(lr, ValNo) ==
  IF lr.vni[ValNo].id = Len(lr.valnos) - 1
  THEN [lr EXCEPT !.valnos =
          popUnused(SubSeq(lr.valnos, 1, Len(lr.valnos) - 1), lr.vni)]
  ELSE [lr EXCEPT !.vni[ValNo].unused = TRUE]

\* The loop of RenumberValues without the Seen set: every segment pushes
\* its value.
RECURSIVE RenumberLoopNoSeen(_, _, _, _, _)
RenumberLoopNoSeen(segs, I, Seen, vals, arena) ==
  IF I > Len(segs) THEN [valnos |-> vals, vni |-> arena, err |-> "none"]
  ELSE IF arena[segs[I].valno].unused
  THEN [valnos |-> vals, vni |-> arena, err |-> "UnusedValnoUsed"]
  ELSE RenumberLoopNoSeen(segs, I + 1, Seen, Append(vals, segs[I].valno),
                          [arena EXCEPT ![segs[I].valno].id = Len(vals)])

\* The loop of RenumberValues over segments I.., with the Seen set.
RECURSIVE RenumberLoop(_, _, _, _, _)
RenumberLoop(segs, I, Seen, vals, arena) ==
  IF I > Len(segs) THEN [valnos |-> vals, vni |-> arena, err |-> "none"]
  ELSE LET VNI == segs[I].valno IN
       IF VNI \in Seen THEN RenumberLoop(segs, I + 1, Seen, vals, arena)
       ELSE IF arena[VNI].unused
       THEN [valnos |-> vals, vni |-> arena, err |-> "UnusedValnoUsed"]
       ELSE RenumberLoop(segs, I + 1, Seen \cup {VNI}, Append(vals, VNI),
                         [arena EXCEPT ![VNI].id = Len(vals)])

\* RenumberValues without valnos.clear(): the values are pushed behind
\* the old table.
RenumberValuesNoClear(lr) ==
  LET r == RenumberLoop(lr.segments, 1, {}, lr.valnos, lr.vni) IN
  IF r.err # "none"
  THEN [segments |-> lr.segments, valnos |-> lr.valnos, vni |-> lr.vni,
        err |-> r.err]
  ELSE [segments |-> lr.segments, valnos |-> r.valnos, vni |-> r.vni,
        err |-> "none"]

\* LiveRange::RenumberValues
RenumberValues(lr) ==
  LET r == RenumberLoop(lr.segments, 1, {}, <<>>, lr.vni) IN
  IF r.err # "none"
  THEN [segments |-> lr.segments, valnos |-> lr.valnos, vni |-> lr.vni,
        err |-> r.err]
  ELSE [segments |-> lr.segments, valnos |-> r.valnos, vni |-> r.vni,
        err |-> "none"]

\* removeSegment, the whole Segment I removed, with the value marked for
\* deletion whenever RemoveDeadValNo is set, other segments of it or not.
removeWholeNoCheck(lr, I, RemoveDeadValNo) ==
  [(IF RemoveDeadValNo
    THEN markValNoForDeletion(lr, lr.segments[I].valno) ELSE lr)
   EXCEPT !.segments = Erase(lr.segments, I, I + 1)]

\* removeSegment when the span is the whole Segment I: the value is marked
\* for deletion if RemoveDeadValNo is set and no other segment has it, and
\* the segment is erased.
removeWhole(lr, I, RemoveDeadValNo) ==
  [(IF /\ RemoveDeadValNo
       /\ \A II \in 1..Len(lr.segments) :
            ~(II # I /\ lr.segments[II].valno = lr.segments[I].valno)
    THEN markValNoForDeletion(lr, lr.segments[I].valno) ELSE lr)
   EXCEPT !.segments = Erase(lr.segments, I, I + 1)]

\* removeSegment, the span in the middle of Segment I, without the insert
\* of the piece behind the span.
removeSplitNoTail(lr, I, Start, End) ==
  [lr EXCEPT !.segments[I].end = Start]

\* removeSegment when the span is in the middle of Segment I: the segment
\* is trimmed to end at Start and the piece [End, OldEnd) is inserted
\* behind it.
removeSplit(lr, I, Start, End) ==
  [lr EXCEPT !.segments =
     Insert([lr.segments EXCEPT ![I].end = Start], I + 1,
            Segment(End, lr.segments[I].end, lr.segments[I].valno))]

\* LiveRange::removeSegment
removeSegment(lr, Start, End, RemoveDeadValNo) ==
  LET segs == lr.segments
      I == find(segs, Start)
      fail(e) == [segments |-> segs, valnos |-> lr.valnos, vni |-> lr.vni,
                  err |-> e]
      ok(l) == [segments |-> l.segments, valnos |-> l.valnos, vni |-> l.vni,
                err |-> "none"]
  IN IF I = Len(segs) + 1 THEN fail("NotInRange")
     ELSE IF ~(Start < End) THEN fail("InvalidSegment")
     ELSE IF ~(segs[I].start <= Start /\ End <= segs[I].end)
     THEN fail("NotInRange")
     ELSE IF segs[I].start = Start
          THEN IF segs[I].end = End
               THEN ok(removeWhole(lr, I, RemoveDeadValNo))
               ELSE ok([lr EXCEPT !.segments[I].start = End])
          ELSE IF segs[I].end = End
          THEN ok([lr EXCEPT !.segments[I].end = Start])
          ELSE ok(removeSplit(lr, I, Start, End))

\* std::remove_if + erase over the segments with valno ValNo.
RECURSIVE removeIfValNo(_, _)
removeIfValNo(segs, ValNo) ==
  IF segs = <<>> THEN <<>>
  ELSE IF Head(segs).valno = ValNo THEN removeIfValNo(Tail(segs), ValNo)
  ELSE <<Head(segs)>> \o removeIfValNo(Tail(segs), ValNo)

\* LiveRange::removeValNo
removeValNo(lr, ValNo) ==
  IF lr.segments = <<>> THEN lr
  ELSE markValNoForDeletion(
         [lr EXCEPT !.segments = removeIfValNo(lr.segments, ValNo)], ValNo)

\* The loop of MergeValueNumberInto: I is the loop iterator.
RECURSIVE MergeValueLoop(_, _, _, _)
MergeValueLoop(segs, I, V1, V2) ==
  IF I > Len(segs) THEN segs
  ELSE IF segs[I].valno # V1 THEN MergeValueLoop(segs, I + 1, V1, V2)
  ELSE LET S == I
           mergePrev == /\ S # 1
                        /\ segs[S - 1].valno = V2
                        /\ segs[S - 1].end = segs[S].start
           segs1 == IF mergePrev
                    THEN Erase([segs EXCEPT ![S - 1].end = segs[S].end],
                               S, S + 1)
                    ELSE segs
           S1 == IF mergePrev THEN S - 1 ELSE S
           I1 == S1 + 1
           segs2 == [segs1 EXCEPT ![S1].valno = V2]
           mergeNext == /\ I1 <= Len(segs2)
                        /\ segs2[I1].start = segs2[S1].end
                        /\ segs2[I1].valno = V2
           segs3 == IF mergeNext
                    THEN Erase([segs2 EXCEPT ![S1].end = segs2[I1].end],
                               I1, I1 + 1)
                    ELSE segs2
       IN MergeValueLoop(segs3, S1 + 1, V1, V2)

\* VNInfo::copyFrom
copyFrom(dst, src) == [dst EXCEPT !.def = src.def, !.unused = src.unused,
                                  !.phi = src.phi]

\* MergeValueNumberInto without the swap that makes V2 the value with the
\* smaller id: V1 is always merged into V2.
MergeValueNumberIntoNoSwap(lr, V1in, V2in) ==
  IF V1in = V2in
  THEN [segments |-> lr.segments, valnos |-> lr.valnos, vni |-> lr.vni,
        ret |-> nullptr, err |-> "IdenticalValues"]
  ELSE LET l1 == LRof(MergeValueLoop(lr.segments, 1, V1in, V2in),
                      lr.valnos, lr.vni)
           l2 == markValNoForDeletion(l1, V1in)
       IN [segments |-> l2.segments, valnos |-> l2.valnos, vni |-> l2.vni,
           ret |-> V2in, err |-> "none"]

\* LiveRange::MergeValueNumberInto
MergeValueNumberInto(lr, V1in, V2in) ==
  IF V1in = V2in
  THEN [segments |-> lr.segments, valnos |-> lr.valnos, vni |-> lr.vni,
        ret |-> nullptr, err |-> "IdenticalValues"]
  ELSE LET swap == lr.vni[V1in].id < lr.vni[V2in].id
           arena == IF swap
                    THEN [lr.vni EXCEPT ![V1in] = copyFrom(@, lr.vni[V2in])]
                    ELSE lr.vni
           V1 == IF swap THEN V2in ELSE V1in
           V2 == IF swap THEN V1in ELSE V2in
           l1 == LRof(MergeValueLoop(lr.segments, 1, V1, V2), lr.valnos, arena)
           l2 == markValNoForDeletion(l1, V1)
       IN [segments |-> l2.segments, valnos |-> l2.valnos, vni |-> l2.vni,
           ret |-> V2, err |-> "none"]

----------------------------------------------------------------------------
\* Queries

\* The while loop of overlapsFrom with >= in place of > in the two tests
\* against the start of the other segment.
RECURSIVE overlapsLoopInclusive(_, _, _, _)
overlapsLoopInclusive(X, i, Y, j) ==
  IF i = Len(X) + 1 THEN FALSE
  ELSE IF X[i].start > Y[j].start
  THEN (IF Y[j].end >= X[i].start THEN TRUE
        ELSE overlapsLoopInclusive(Y, j + 1, X, i))
  ELSE (IF X[i].end >= Y[j].start THEN TRUE
        ELSE overlapsLoopInclusive(X, i + 1, Y, j))

\* The while loop of overlapsFrom: i walks X, j points into Y; a swap of
\* (i, ie) with (j, je) exchanges the two vectors.
RECURSIVE overlapsLoop(_, _, _, _)
overlapsLoop(X, i, Y, j) ==
  IF i = Len(X) + 1 THEN FALSE
  ELSE IF X[i].start > Y[j].start
  THEN (IF Y[j].end > X[i].start THEN TRUE ELSE overlapsLoop(Y, j + 1, X, i))
  ELSE (IF X[i].end > Y[j].start THEN TRUE ELSE overlapsLoop(X, i + 1, Y, j))

\* LiveRange::overlapsFrom(other, StartPos), StartPos an iterator into other
\* that is not other.end().
overlapsFrom(segs, other, StartPos) ==
  IF segs = <<>> THEN [ret |-> FALSE, err |-> "EmptyRange"]
  ELSE IF ~(other[StartPos].start <= segs[1].start \/ StartPos = 1)
  THEN [ret |-> FALSE, err |-> "BogusHint"]
  ELSE IF segs[1].start < other[StartPos].start
  THEN LET ub == upper_bound(segs, 1, Len(segs), other[StartPos].start)
           i == IF ub # 1 THEN ub - 1 ELSE ub
       IN [ret |-> overlapsLoop(segs, i, other, StartPos), err |-> "none"]
  ELSE IF other[StartPos].start < segs[1].start
  THEN LET SP == StartPos + 1
           ub == upper_bound(other, StartPos, Len(other) + 1 - StartPos,
                             segs[1].start)
           j == IF SP # Len(other) + 1 /\ other[SP].start <= segs[1].start
                THEN (IF ub # 1 THEN ub - 1 ELSE ub)
                ELSE StartPos
       IN IF j = Len(other) + 1 THEN [ret |-> FALSE, err |-> "none"]
          ELSE [ret |-> overlapsLoop(segs, 1, other, j), err |-> "none"]
  ELSE [ret |-> TRUE, err |-> "none"]

\* CP.isCoalescable(Indexes.getInstructionFromIndex(Def)): the coalescer
\* pair is the set Coal of the instructions it declares coalescable copies.
isCoalescable(Coal, Def) == (Def \div SlotsPerInstr) \in Coal

\* The do-while of overlaps(Other, CP, Indexes) that advances J in Y until
\* J->end >= Start; Len(Y) + 1 when J reaches JE.
RECURSIVE overlapsAdvance(_, _, _)
overlapsAdvance(Y, j, Start) ==
  IF j + 1 = Len(Y) + 1 THEN Len(Y) + 1
  ELSE IF Y[j + 1].end < Start THEN overlapsAdvance(Y, j + 1, Start)
  ELSE j + 1

\* The for (;;) of overlaps(Other, CP, Indexes): I = X[i], J = Y[j]; the two
\* swaps exchange the vectors.
RECURSIVE overlapsCPLoop(_, _, _, _, _)
overlapsCPLoop(X, i, Y, j, Coal) ==
  IF ~(Y[j].end >= X[i].start) THEN [ret |-> FALSE, err |-> "JNotAdvanced"]
  ELSE IF /\ Y[j].start < X[i].end
          /\ \/ isBlock(Max(X[i].start, Y[j].start))
             \/ ~isCoalescable(Coal, Max(X[i].start, Y[j].start))
  THEN [ret |-> TRUE, err |-> "none"]
  ELSE IF Y[j].end > X[i].end
  THEN (IF overlapsAdvance(X, i, Y[j].start) = Len(X) + 1
        THEN [ret |-> FALSE, err |-> "none"]
        ELSE overlapsCPLoop(Y, j, X, overlapsAdvance(X, i, Y[j].start), Coal))
  ELSE (IF overlapsAdvance(Y, j, X[i].start) = Len(Y) + 1
        THEN [ret |-> FALSE, err |-> "none"]
        ELSE overlapsCPLoop(X, i, Y, overlapsAdvance(Y, j, X[i].start), Coal))

\* LiveRange::overlaps(Other, CP, Indexes)
overlapsCP(segs, other, Coal) ==
  IF segs = <<>> THEN [ret |-> FALSE, err |-> "EmptyRange"]
  ELSE IF other = <<>> THEN [ret |-> FALSE, err |-> "none"]
  ELSE IF find(segs, other[1].start) = Len(segs) + 1
  THEN [ret |-> FALSE, err |-> "none"]
  ELSE IF find(other, segs[find(segs, other[1].start)].start) = Len(other) + 1
  THEN [ret |-> FALSE, err |-> "none"]
  ELSE overlapsCPLoop(segs, find(segs, other[1].start), other,
                      find(other, segs[find(segs, other[1].start)].start),
                      Coal)

\* LiveRange::advanceTo(I, Pos): the first segment from I on that ends after
\* Pos; I is not end().
RECURSIVE advanceLoop(_, _, _)
advanceLoop(segs, I, Pos) ==
  IF segs[I].end <= Pos THEN advanceLoop(segs, I + 1, Pos) ELSE I

advanceTo(segs, I, Pos) ==
  IF Pos >= segs[Len(segs)].end THEN Len(segs) + 1
  ELSE advanceLoop(segs, I, Pos)

\* The while loop of covers without the test that the next segment is
\* adjacent to the last one.
RECURSIVE coversChainAny(_, _, _)
coversChainAny(segs, I, End) ==
  IF ~(segs[I].end < End) THEN I
  ELSE IF I + 1 = Len(segs) + 1 THEN 0
  ELSE coversChainAny(segs, I + 1, End)

\* The while loop of covers that follows adjacent segments from I until one
\* ends at or after End; 0 when the next segment is missing or not adjacent.
RECURSIVE coversChain(_, _, _)
coversChain(segs, I, End) ==
  IF ~(segs[I].end < End) THEN I
  ELSE IF I + 1 = Len(segs) + 1 \/ segs[I].end # segs[I + 1].start THEN 0
  ELSE coversChain(segs, I + 1, End)

\* The range-for of covers over the segments of Other from O on, with the
\* cursor I into this range.
RECURSIVE coversLoop(_, _, _, _)
coversLoop(segs, I, other, O) ==
  IF O > Len(other) THEN TRUE
  ELSE IF advanceTo(segs, I, other[O].start) = Len(segs) + 1 THEN FALSE
  ELSE IF segs[advanceTo(segs, I, other[O].start)].start > other[O].start
  THEN FALSE
  ELSE IF coversChain(segs, advanceTo(segs, I, other[O].start),
                      other[O].end) = 0
  THEN FALSE
  ELSE coversLoop(segs,
                  coversChain(segs, advanceTo(segs, I, other[O].start),
                              other[O].end),
                  other, O + 1)

\* LiveRange::covers
covers(segs, other) ==
  IF segs = <<>> THEN other = <<>>
  ELSE coversLoop(segs, 1, other, 1)

\* Segment::contains(I)
contains(S, I) == S.start <= I /\ I < S.end

\* The for loop of isLiveAtIndexes with the search of every slot restarted
\* at the segment after the one reached for the slot before it.
RECURSIVE isLiveLoopSkip(_, _, _, _)
isLiveLoopSkip(segs, SegmentI, SlotList, SlotI) ==
  IF SlotI > Len(SlotList) THEN FALSE
  ELSE IF advanceTo(segs, SegmentI, SlotList[SlotI]) = Len(segs) + 1 THEN FALSE
  ELSE IF contains(segs[advanceTo(segs, SegmentI, SlotList[SlotI])],
                   SlotList[SlotI])
  THEN TRUE
  ELSE IF advanceTo(segs, SegmentI, SlotList[SlotI]) = Len(segs) THEN FALSE
  ELSE isLiveLoopSkip(segs, advanceTo(segs, SegmentI, SlotList[SlotI]) + 1,
                      SlotList, SlotI + 1)

\* The for loop of isLiveAtIndexes over the slots from SlotI on
RECURSIVE isLiveLoop(_, _, _, _)
isLiveLoop(segs, SegmentI, SlotList, SlotI) ==
  IF SlotI > Len(SlotList) THEN FALSE
  ELSE IF advanceTo(segs, SegmentI, SlotList[SlotI]) = Len(segs) + 1 THEN FALSE
  ELSE IF contains(segs[advanceTo(segs, SegmentI, SlotList[SlotI])],
                   SlotList[SlotI])
  THEN TRUE
  ELSE isLiveLoop(segs, advanceTo(segs, SegmentI, SlotList[SlotI]),
                  SlotList, SlotI + 1)

\* LiveRange::isLiveAtIndexes
isLiveAtIndexes(segs, SlotList) ==
  IF SlotList = <<>> THEN FALSE
  ELSE IF find(segs, SlotList[1]) = Len(segs) + 1 THEN FALSE
  ELSE isLiveLoop(segs, find(segs, SlotList[1]), SlotList, 1)

----------------------------------------------------------------------------
\* LiveRangeUpdater.  u is a record [segs, LastStart, WriteI, ReadI, Spills,
\* err]; segs is LR->segments.  When the updater is clean (LastStart invalid)
\* the iterators are invalid, written 0.

InvalidIt == 0

\* LiveRangeUpdater(LiveRange *lr)
LiveRangeUpdater(segs) ==
  [segs |-> segs, LastStart |-> InvalidSlot, WriteI |-> InvalidIt,
   ReadI |-> InvalidIt, Spills |-> <<>>, err |-> "none"]

isDirty(u) == isValid(u.LastStart)

\* coalescable that does not coalesce segments that only touch.
coalescableNoTouch(A, B) ==
  IF ~(A.start <= B.start) THEN "Unordered"
  ELSE IF A.end = B.start THEN "no"
  ELSE IF A.end < B.start THEN "no"
  ELSE IF A.valno # B.valno THEN "CannotOverlap"
  ELSE "yes"

\* coalescable(A, B): "yes", "no", or the assert that fires.
coalescable(A, B) ==
  IF ~(A.start <= B.start) THEN "Unordered"
  ELSE IF A.end = B.start THEN (IF A.valno = B.valno THEN "yes" ELSE "no")
  ELSE IF A.end < B.start THEN "no"
  ELSE IF A.valno # B.valno THEN "CannotOverlap"
  ELSE "yes"

\* The backwards merge loop of mergeSpills.
RECURSIVE mergeSpillsLoop(_, _, _, _, _)
mergeSpillsLoop(segs, Src, Dst, SpillSrc, Spills) ==
  IF Src = Dst THEN [segs |-> segs, SpillSrc |-> SpillSrc]
  ELSE IF Src # 1 /\ segs[Src - 1].start > Spills[SpillSrc - 1].start
  THEN mergeSpillsLoop([segs EXCEPT ![Dst - 1] = segs[Src - 1]],
                       Src - 1, Dst - 1, SpillSrc, Spills)
  ELSE mergeSpillsLoop([segs EXCEPT ![Dst - 1] = Spills[SpillSrc - 1]],
                       Src, Dst - 1, SpillSrc - 1, Spills)

\* LiveRangeUpdater::mergeSpills
mergeSpills(u) ==
  LET GapSize == u.ReadI - u.WriteI
      NumMoved == Min(Len(u.Spills), GapSize)
      Src == u.WriteI
      Dst == Src + NumMoved
      r == mergeSpillsLoop(u.segs, Src, Dst, Len(u.Spills) + 1, u.Spills)
  IN [u EXCEPT !.WriteI = Dst, !.segs = r.segs,
               !.Spills = SubSeq(u.Spills, 1, r.SpillSrc - 1)]

\* n default-constructed segments
RECURSIVE Placeholders(_)
Placeholders(n) ==
  IF n <= 0 THEN <<>>
  ELSE <<Segment(InvalidSlot, InvalidSlot, nullptr)>> \o Placeholders(n - 1)

\* flush without the early return for an updater that is not dirty: the
\* erase runs on the whole vector.
flushNoDirtyTest(u, vals, arena) ==
  LET clean(v) ==
        LET w == [v EXCEPT !.LastStart = InvalidSlot,
                           !.WriteI = InvalidIt, !.ReadI = InvalidIt]
        IN IF verify(w.segs, vals, arena) THEN w
           ELSE [w EXCEPT !.err = "VerifyFailed"]
      d == IF isDirty(u) THEN u
           ELSE [u EXCEPT !.WriteI = 1, !.ReadI = Len(u.segs) + 1]
      GapSize == d.ReadI - d.WriteI
      n == Len(d.Spills)
  IN IF d.Spills = <<>>
     THEN clean([d EXCEPT !.segs = Erase(d.segs, d.WriteI, d.ReadI)])
     ELSE LET resized ==
                IF GapSize < n
                THEN SubSeq(d.segs, 1, d.ReadI - 1)
                       \o Placeholders(n - GapSize)
                       \o SubSeq(d.segs, d.ReadI, Len(d.segs))
                ELSE Erase(d.segs, d.WriteI + n, d.ReadI)
          IN clean(mergeSpills([d EXCEPT !.segs = resized,
                                         !.ReadI = d.WriteI + n]))

\* LiveRangeUpdater::flush
flush(u, vals, arena) ==
  IF ~isDirty(u) THEN u
  ELSE LET clean(v) ==
             LET w == [v EXCEPT !.LastStart = InvalidSlot,
                                !.WriteI = InvalidIt, !.ReadI = InvalidIt]
             IN IF verify(w.segs, vals, arena) THEN w
                ELSE [w EXCEPT !.err = "VerifyFailed"]
           GapSize == u.ReadI - u.WriteI
           n == Len(u.Spills)
       IN IF u.Spills = <<>>
          THEN clean([u EXCEPT !.segs = Erase(u.segs, u.WriteI, u.ReadI)])
          ELSE LET resized ==
                     IF GapSize < n
                     THEN SubSeq(u.segs, 1, u.ReadI - 1)
                            \o Placeholders(n - GapSize)
                            \o SubSeq(u.segs, u.ReadI, Len(u.segs))
                     ELSE Erase(u.segs, u.WriteI + n, u.ReadI)
               IN clean(mergeSpills([u EXCEPT !.segs = resized,
                                              !.ReadI = u.WriteI + n]))

\* while (ReadI != E && ReadI->end <= Seg.start) *WriteI++ = *ReadI++;
RECURSIVE copyForward(_, _)
copyForward(u, Start) ==
  IF u.ReadI # Len(u.segs) + 1 /\ u.segs[u.ReadI].end <= Start
  THEN copyForward([u EXCEPT !.segs[u.WriteI] = u.segs[u.ReadI],
                             !.WriteI = u.WriteI + 1,
                             !.ReadI = u.ReadI + 1], Start)
  ELSE u

\* while (ReadI != E && coalescable(Seg, *ReadI)) { Seg.end = max; ++ReadI; }
RECURSIVE coalesceForward(_, _, _)
coalesceForward(segs, Seg, R) ==
  IF R = Len(segs) + 1 THEN [Seg |-> Seg, ReadI |-> R, err |-> "none"]
  ELSE LET c == coalescable(Seg, segs[R]) IN
       IF c = "yes"
       THEN coalesceForward(segs, [Seg EXCEPT !.end = Max(Seg.end, segs[R].end)],
                            R + 1)
       ELSE IF c = "no" THEN [Seg |-> Seg, ReadI |-> R, err |-> "none"]
       ELSE [Seg |-> Seg, ReadI |-> R, err |-> c]

\* The outcome r of a call on the updater u: r, or u as it was with the
\* assert that fired.
orFail(u, r) == IF r.err # "none" THEN [u EXCEPT !.err = r.err] ELSE r

\* LiveRangeUpdater::add, from "Try coalescing Seg into WriteI[-1]"; cw is
\* coalescable(WriteI[-1], Seg), "no" when WriteI is begin().
addWriteAs(u, Seg, cw) ==
  IF cw = "yes"
  THEN [u EXCEPT !.segs[u.WriteI - 1].end =
                    Max(u.segs[u.WriteI - 1].end, Seg.end)]
  ELSE IF cw # "no" THEN [u EXCEPT !.err = cw]
  ELSE IF u.WriteI # u.ReadI
  THEN [u EXCEPT !.segs[u.WriteI] = Seg, !.WriteI = u.WriteI + 1]
  ELSE IF u.WriteI = Len(u.segs) + 1
  THEN [u EXCEPT !.segs = Append(u.segs, Seg),
                 !.WriteI = Len(u.segs) + 2, !.ReadI = Len(u.segs) + 2]
  ELSE [u EXCEPT !.Spills = Append(u.Spills, Seg)]

addWrite(u, Seg) ==
  addWriteAs(u, Seg, IF u.WriteI # 1
                     THEN coalescable(u.segs[u.WriteI - 1], Seg) ELSE "no")

\* LiveRangeUpdater::add, from "Try coalescing Spills.back() into Seg"; cs
\* is coalescable(Spills.back(), Seg), "no" when Spills is empty.
addSpillBack(u, Seg, cs) ==
  IF cs = "yes"
  THEN addWrite([u EXCEPT !.Spills = SubSeq(u.Spills, 1, Len(u.Spills) - 1)],
                [Seg EXCEPT !.start = u.Spills[Len(u.Spills)].start,
                            !.end = Max(u.Spills[Len(u.Spills)].end, Seg.end)])
  ELSE IF cs = "no" THEN addWrite(u, Seg)
  ELSE [u EXCEPT !.err = cs]

addPlace(u, Seg) ==
  addSpillBack(u, Seg, IF u.Spills # <<>>
                       THEN coalescable(u.Spills[Len(u.Spills)], Seg)
                       ELSE "no")

\* LiveRangeUpdater::add, after "Coalesce as much as possible from ReadI
\* into Seg"; c is the outcome of that loop.
addCoalesced(u, c) ==
  IF c.err # "none" THEN [u EXCEPT !.err = c.err]
  ELSE addPlace([u EXCEPT !.ReadI = c.ReadI], c.Seg)

\* LiveRangeUpdater::add, from the assert that ReadI has advanced and
\* "Check if the ReadI segment begins early".
addCoalesce(u, Seg) ==
  IF ~(u.ReadI = Len(u.segs) + 1 \/ u.segs[u.ReadI].end > Seg.start)
  THEN [u EXCEPT !.err = "ReadINotAdvanced"]
  ELSE IF u.ReadI # Len(u.segs) + 1 /\ u.segs[u.ReadI].start <= Seg.start
  THEN IF u.segs[u.ReadI].valno # Seg.valno
       THEN [u EXCEPT !.err = "CannotOverlap"]
       ELSE IF u.segs[u.ReadI].end >= Seg.end THEN u
       ELSE addCoalesced(u, coalesceForward(u.segs,
                [Seg EXCEPT !.start = u.segs[u.ReadI].start], u.ReadI + 1))
  ELSE addCoalesced(u, coalesceForward(u.segs, Seg, u.ReadI))

\* LiveRangeUpdater::add, "Then advance ReadI", after mergeSpills.
addAdvanceFrom(u, Start) ==
  IF u.ReadI = u.WriteI
  THEN [u EXCEPT !.ReadI = find(u.segs, Start), !.WriteI = find(u.segs, Start)]
  ELSE copyForward(u, Start)

\* LiveRangeUpdater::add, "Advance ReadI until it ends after Seg.start".
addAdvance(u, Seg) ==
  IF u.ReadI # Len(u.segs) + 1 /\ u.segs[u.ReadI].end <= Seg.start
  THEN addAdvanceFrom(IF u.ReadI # u.WriteI THEN mergeSpills(u) ELSE u,
                      Seg.start)
  ELSE u

\* LiveRangeUpdater::add, the reinitialization after the flush; f is the
\* flushed updater.
addReinit(f) ==
  IF f.err # "none" THEN f
  ELSE IF f.Spills # <<>> THEN [f EXCEPT !.err = "LeftoverSpills"]
  ELSE [f EXCEPT !.WriteI = 1, !.ReadI = 1]

\* LiveRangeUpdater::add from "Remember start for next time" on.
addFrom(u, Seg) ==
  IF u.err # "none" THEN u
  ELSE addCoalesce(addAdvance([u EXCEPT !.LastStart = Seg.start], Seg), Seg)

\* add without the flush and reset when Seg starts before the last added
\* segment.
addNoReset(u, Seg, vals, arena) ==
  orFail(u, addFrom(IF ~isValid(u.LastStart)
                    THEN addReinit(IF isDirty(u) THEN flush(u, vals, arena)
                                   ELSE u)
                    ELSE u, Seg))

\* LiveRangeUpdater::add on the segment vector.
add(u, Seg, vals, arena) ==
  orFail(u, addFrom(IF ~isValid(u.LastStart) \/ u.LastStart > Seg.start
                    THEN addReinit(IF isDirty(u) THEN flush(u, vals, arena)
                                   ELSE u)
                    ELSE u, Seg))

----------------------------------------------------------------------------
\* LiveRange::join

\* The in-place rewrite of this range's segments in join.
RECURSIVE joinMapLoop(_, _, _, _, _, _)
joinMapLoop(segs, OutIt, I, arena, LHS, New) ==
  IF I > Len(segs) THEN [segs |-> SubSeq(segs, 1, OutIt), err |-> "none"]
  ELSE LET nextValNo == New[LHS[arena[segs[I].valno].id + 1] + 1] IN
       IF nextValNo = nullptr THEN [segs |-> segs, err |-> "Huh"]
       ELSE IF segs[OutIt].valno = nextValNo /\ segs[OutIt].end = segs[I].start
       THEN joinMapLoop([segs EXCEPT ![OutIt].end = segs[I].end],
                        OutIt, I + 1, arena, LHS, New)
       ELSE joinMapLoop([segs EXCEPT ![OutIt + 1].valno = nextValNo,
                                     ![OutIt + 1].start = segs[I].start,
                                     ![OutIt + 1].end = segs[I].end],
                        OutIt + 1, I + 1, arena, LHS, New)

\* "Update val# info" loop of join over NewVNInfo[i..].
RECURSIVE joinValnosLoop(_, _, _, _, _, _)
joinValnosLoop(New, i, NumValNos, NumVals, vals, arena) ==
  IF i > Len(New) THEN [valnos |-> vals, vni |-> arena]
  ELSE LET VNI == New[i] IN
       IF VNI = nullptr
       THEN joinValnosLoop(New, i + 1, NumValNos, NumVals, vals, arena)
       ELSE joinValnosLoop(New, i + 1, NumValNos + 1, NumVals,
              IF NumValNos >= NumVals THEN Append(vals, VNI)
              ELSE [vals EXCEPT ![NumValNos + 1] = VNI],
              [arena EXCEPT ![VNI].id = NumValNos])

\* for (Segment &S : Other.segments) Updater.add(S);
RECURSIVE addAll(_, _, _, _)
addAll(u, segs, vals, arena) ==
  IF segs = <<>> \/ u.err # "none" THEN u
  ELSE addAll(add(u, Head(segs), vals, arena), Tail(segs), vals, arena)

\* ~LiveRangeUpdater()
UpdaterDestructor(u, vals, arena) ==
  IF u.err # "none" THEN u ELSE flush(u, vals, arena)

\* The segments of RHS from k on, each with the value number LHSValNo.
RECURSIVE asValue(_, _, _)
asValue(RHS, k, LHSValNo) ==
  IF k > Len(RHS) THEN <<>>
  ELSE <<Segment(RHS[k].start, RHS[k].end, LHSValNo)>>
         \o asValue(RHS, k + 1, LHSValNo)

\* MergeSegmentsInAsValue with only the first segment of RHS added.
MergeSegmentsInAsValueFirst(lr, RHS, LHSValNo) ==
  UpdaterDestructor(
    addAll(LiveRangeUpdater(lr.segments),
           IF RHS = <<>> THEN <<>>
           ELSE <<Segment(RHS[1].start, RHS[1].end, LHSValNo)>>,
           lr.valnos, lr.vni),
    lr.valnos, lr.vni)

\* LiveRange::MergeSegmentsInAsValue: the updater lives for the call and
\* its destructor flushes.
MergeSegmentsInAsValue(lr, RHS, LHSValNo) ==
  UpdaterDestructor(
    addAll(LiveRangeUpdater(lr.segments), asValue(RHS, 1, LHSValNo),
           lr.valnos, lr.vni),
    lr.valnos, lr.vni)

\* LiveRange::join.  Other is a record [segments, valnos] whose VNInfos live
\* in the same arena; LHS, RHS are the assignment arrays, New is NewVNInfo.
join(lr, Other, LHS, RHS, New) ==
  LET fail(e) == [segments |-> lr.segments, valnos |-> lr.valnos,
                  vni |-> lr.vni, err |-> e]
      NumVals == Len(lr.valnos)
      NumNewVals == Len(New)
      MustMapCurValNos ==
        \E i \in 0..(NumVals - 1) :
           \/ i # LHS[i + 1]
           \/ (New[LHS[i + 1] + 1] # nullptr
                 /\ New[LHS[i + 1] + 1] # lr.valnos[i + 1])
      first == [lr.segments EXCEPT ![1].valno =
                  New[LHS[lr.vni[lr.segments[1].valno].id + 1] + 1]]
      mapped == IF MustMapCurValNos /\ lr.segments # <<>>
                THEN joinMapLoop(first, 1, 2, lr.vni, LHS, New)
                ELSE [segs |-> lr.segments, err |-> "none"]
      otherSegs == [k \in 1..Len(Other.segments) |->
                      [Other.segments[k] EXCEPT !.valno =
                         New[RHS[lr.vni[Other.segments[k].valno].id + 1] + 1]]]
      v == joinValnosLoop(New, 1, 0, NumVals, lr.valnos, lr.vni)
      vals == IF NumNewVals < NumVals THEN SubSeq(v.valnos, 1, NumNewVals)
              ELSE v.valnos
      u == UpdaterDestructor(
             addAll(LiveRangeUpdater(mapped.segs), otherSegs, vals, v.vni),
             vals, v.vni)
  IN IF ~verify(lr.segments, lr.valnos, lr.vni) THEN fail("VerifyFailed")
     ELSE IF mapped.err # "none" THEN fail(mapped.err)
     ELSE IF u.err # "none" THEN fail(u.err)
     ELSE [segments |-> u.segs, valnos |-> vals, vni |-> v.vni, err |-> "none"]

----------------------------------------------------------------------------
\* ConnectedVNInfoEqClasses.  The control-flow graph: every instruction is
\* a block of its own, Preds[b] is the set of predecessors of block b.

\* LiveRange::getVNInfoBefore and LiveRange::getVNInfoAt
getVNInfoAt(segs, Idx) ==
  LET I == find(segs, Idx) IN
  IF I <= Len(segs) /\ segs[I].start <= Idx THEN segs[I].valno ELSE nullptr
getVNInfoBefore(segs, Idx) == getVNInfoAt(segs, getPrevSlot(Idx))

\* VNInfo::isPHIDef
isPHIDef(V) == V.phi

\* LiveIntervals::getMBBFromIndex and LiveIntervals::getMBBEndIdx
getMBBFromIndex(Idx) == Idx \div SlotsPerInstr
getMBBEndIdx(MBB) == (MBB + 1) * SlotsPerInstr

\* IntEqClasses: EC[i + 1] is the leader, the smallest member, of the
\* class of i; after compress it is the number of the class, the classes
\* being numbered in the order of their leaders.
grow(N) == [k \in 1..N |-> k - 1]
joinEq(EC, a, b) ==
  LET lo == Min(EC[a + 1], EC[b + 1])
      hi == Max(EC[a + 1], EC[b + 1])
  IN [k \in 1..Len(EC) |-> IF EC[k] = hi THEN lo ELSE EC[k]]
compress(EC) ==
  [k \in 1..Len(EC) |->
     Cardinality({j \in 1..Len(EC) : EC[j] = j - 1 /\ j - 1 < EC[k]})]
getNumClasses(EC) == Cardinality({EC[k] : k \in 1..Len(EC)})

\* Classify, a PHI def: "Connect to values live out of predecessors."
RECURSIVE joinPreds(_, _, _, _)
joinPreds(lr, EC, V, PS) ==
  IF PS = {} THEN EC
  ELSE LET PI == CHOOSE b \in PS : \A c \in PS : b <= c
           PVNI == getVNInfoBefore(lr.segments, getMBBEndIdx(PI))
       IN joinPreds(lr, IF PVNI # nullptr
                        THEN joinEq(EC, V.id, lr.vni[PVNI].id) ELSE EC,
                    V, PS \ {PI})

\* Classify with a value defined by an instruction joined to nothing.
joinRedefNone(lr, EC, V) == EC

\* Classify, a value defined by an instruction: "Check for two-addr redef."
joinRedef(lr, EC, V) ==
  LET UVNI == getVNInfoBefore(lr.segments, V.def) IN
  IF UVNI # nullptr THEN joinEq(EC, V.id, lr.vni[UVNI].id) ELSE EC

\* Classify: the loop over LR.valnos.
RECURSIVE ClassifyLoop(_, _, _, _, _, _)
ClassifyLoop(lr, Preds, k, EC, used, unused) ==
  IF k > Len(lr.valnos)
  THEN [EC |-> EC, used |-> used, unused |-> unused]
  ELSE LET VNI == lr.valnos[k]
           V == lr.vni[VNI]
       IN IF V.unused
          THEN ClassifyLoop(lr, Preds, k + 1,
                            IF unused # nullptr
                            THEN joinEq(EC, lr.vni[unused].id, V.id) ELSE EC,
                            used, VNI)
          ELSE IF isPHIDef(V)
          THEN ClassifyLoop(lr, Preds, k + 1,
                            joinPreds(lr, EC, V, Preds[getMBBFromIndex(V.def)]),
                            VNI, unused)
          ELSE ClassifyLoop(lr, Preds, k + 1, joinRedef(lr, EC, V),
                            VNI, unused)

\* ConnectedVNInfoEqClasses::Classify: the classes and their number.
Classify(lr, Preds) ==
  LET r == ClassifyLoop(lr, Preds, 1, grow(Len(lr.valnos)), nullptr, nullptr)
      EC == IF r.used # nullptr /\ r.unused # nullptr
            THEN joinEq(r.EC, lr.vni[r.used].id, lr.vni[r.unused].id)
            ELSE r.EC
      C == compress(EC)
  IN [EqClass |-> C, ret |-> getNumClasses(C)]

\* LiveRange::expiredAt on a range that is not empty
expiredAt(segs, index) == index >= segs[Len(segs)].end

\* DistributeRange: the sweep over the segments from I on.  kept holds the
\* segments before J; a segment of class eq > 0 goes to SplitLRs[eq].
RECURSIVE distributeSegs(_, _, _, _, _, _)
distributeSegs(segs, I, kept, SplitLRs, VNIClasses, arena) ==
  IF I > Len(segs) THEN [kept |-> kept, SplitLRs |-> SplitLRs, err |-> "none"]
  ELSE LET eq == VNIClasses[arena[segs[I].valno].id + 1] IN
       IF eq # 0
       THEN IF SplitLRs[eq].segments = <<>>
               \/ expiredAt(SplitLRs[eq].segments, segs[I].start)
            THEN distributeSegs(segs, I + 1, kept,
                                [SplitLRs EXCEPT ![eq].segments =
                                   Append(@, segs[I])],
                                VNIClasses, arena)
            ELSE [kept |-> kept, SplitLRs |-> SplitLRs,
                  err |-> "NewIntervalsNotEmpty"]
       ELSE distributeSegs(segs, I + 1, Append(kept, segs[I]), SplitLRs,
                           VNIClasses, arena)

\* The sweep over the value numbers with every value kept in LR.
RECURSIVE distributeVNIsKeep(_, _, _, _, _, _)
distributeVNIsKeep(vals, i, kept, SplitLRs, VNIClasses, arena) ==
  IF i > Len(vals) THEN [kept |-> kept, SplitLRs |-> SplitLRs, vni |-> arena]
  ELSE distributeVNIsKeep(vals, i + 1, Append(kept, vals[i]), SplitLRs,
                          VNIClasses,
                          [arena EXCEPT ![vals[i]].id = Len(kept)])

\* DistributeRange: the sweep over the value numbers from i on.  kept holds
\* the entries of LR.valnos before j.
RECURSIVE distributeVNIs(_, _, _, _, _, _)
distributeVNIs(vals, i, kept, SplitLRs, VNIClasses, arena) ==
  IF i > Len(vals) THEN [kept |-> kept, SplitLRs |-> SplitLRs, vni |-> arena]
  ELSE LET VNI == vals[i]
           eq == VNIClasses[i]
       IN IF eq # 0
          THEN distributeVNIs(vals, i + 1, kept,
                              [SplitLRs EXCEPT ![eq].valnos = Append(@, VNI)],
                              VNIClasses,
                              [arena EXCEPT ![VNI].id =
                                 Len(SplitLRs[eq].valnos)])
          ELSE distributeVNIs(vals, i + 1, Append(kept, VNI), SplitLRs,
                              VNIClasses,
                              [arena EXCEPT ![VNI].id = Len(kept)])

\* The first index of 1..Len(C) + 1 from which on C is not all 0:
\* "while (j != e && VNIClasses[j] == 0) ++j".
RECURSIVE skipZero(_, _)
skipZero(C, j) == IF j <= Len(C) /\ C[j] = 0 THEN skipZero(C, j + 1) ELSE j

\* DistributeRange: the segments, from the first one that moves.
distributeSegsFrom(segs, J, SplitLRs, VNIClasses, arena) ==
  distributeSegs(segs, J, SubSeq(segs, 1, J - 1), SplitLRs, VNIClasses, arena)

\* DistributeRange: the value numbers, from the first one that moves.
distributeVNIsFrom(vals, j, SplitLRs, VNIClasses, arena) ==
  distributeVNIs(vals, j, SubSeq(vals, 1, j - 1), SplitLRs, VNIClasses, arena)

\* DistributeRange: the range and the targets after both sweeps.
distributed(s, v) ==
  [segments |-> s.kept, valnos |-> v.kept, vni |-> v.vni,
   SplitLRs |-> v.SplitLRs, err |-> "none"]

\* DistributeRange: "Transfer VNInfos to their new owners and renumber
\* them", s being the outcome of the sweep over the segments.
distributeTransfer(lr, SplitLRs, VNIClasses, s) ==
  IF s.err # "none"
  THEN [segments |-> lr.segments, valnos |-> lr.valnos, vni |-> lr.vni,
        SplitLRs |-> SplitLRs, err |-> s.err]
  ELSE distributed(s, distributeVNIsFrom(
                        lr.valnos,
                        skipZero([k \in 1..Len(lr.valnos) |-> VNIClasses[k]], 1),
                        s.SplitLRs, VNIClasses, lr.vni))

\* DistributeRange(LR, SplitLRs, VNIClasses)
DistributeRange(lr, SplitLRs, VNIClasses) ==
  distributeTransfer(lr, SplitLRs, VNIClasses,
    distributeSegsFrom(lr.segments,
                       skipZero([k \in 1..Len(lr.segments) |->
                                   VNIClasses[lr.vni[lr.segments[k].valno].id + 1]],
                                1),
                       SplitLRs, VNIClasses, lr.vni))

\* A LiveInterval: its main range and its subranges.
Interval(segs, vals, subs) ==
  [segments |-> segs, valnos |-> vals, SubRanges |-> subs]

\* LiveInterval::SubRange, and LiveInterval::createSubRange, which puts the
\* new subrange at the head of the list.
SubRange(LaneMask) == [LaneMask |-> LaneMask, segments |-> <<>>, valnos |-> <<>>]
createSubRange(subs, LaneMask) == <<SubRange(LaneMask)>> \o subs

\* Distribute with the empty subranges left in the interval.
removeEmptySubRangesNone(subs) == subs

\* removeEmptySubRanges: "Skip empty subranges until we find the first
\* nonempty one": the node after the run of empty nodes that starts at I,
\* which are freed.
RECURSIVE skipEmpty(_, _)
skipEmpty(subs, I) ==
  IF I + 1 <= Len(subs) /\ subs[I + 1].segments = <<>>
  THEN skipEmpty(subs, I + 1) ELSE I + 1

\* The loop of removeEmptySubRanges with the list left as it is behind the
\* first run of empty nodes.
RECURSIVE removeEmptyLoopOnce(_, _, _)
removeEmptyLoopOnce(subs, I, kept) ==
  IF I > Len(subs) THEN kept
  ELSE IF subs[I].segments # <<>>
  THEN removeEmptyLoopOnce(subs, I + 1, Append(kept, subs[I]))
  ELSE kept \o SubSeq(subs, skipEmpty(subs, I), Len(subs))

\* The loop of removeEmptySubRanges: I is the node looked at, kept the
\* list up to *NextPtr.
RECURSIVE removeEmptyLoop(_, _, _)
removeEmptyLoop(subs, I, kept) ==
  IF I > Len(subs) THEN kept
  ELSE IF subs[I].segments # <<>>
  THEN removeEmptyLoop(subs, I + 1, Append(kept, subs[I]))
  ELSE removeEmptyLoop(subs, skipEmpty(subs, I), kept)

\* LiveInterval::removeEmptySubRanges
removeEmptySubRanges(subs) == removeEmptyLoop(subs, 1, <<>>)

\* Distribute: VNIMapping of the subrange SR, -1 where the assert "SubRange
\* def must have corresponding main range def" fires.
subMapping(li, SR, EC, arena) ==
  [I \in 1..Len(SR.valnos) |->
     LET VNI == arena[SR.valnos[I]] IN
     IF VNI.unused THEN 0
     ELSE LET MainRangeVNI == getVNInfoAt(li.segments, VNI.def) IN
          IF MainRangeVNI = nullptr THEN -1
          ELSE EC[arena[MainRangeVNI].id + 1]]

\* Distribute: the subrange SR and the targets after DistributeRange gave
\* r; a subrange of the lane mask of SR was created in LIVs[c] for every
\* component c > 0 of the mapping M.
subDistributed(SR, LIVs, M, r) ==
  [SR |-> [SR EXCEPT !.segments = r.segments, !.valnos = r.valnos],
   LIVs |-> [c \in 1..Len(LIVs) |->
               IF \E I \in 1..Len(M) : M[I] = c
               THEN [LIVs[c] EXCEPT !.SubRanges =
                       <<r.SplitLRs[c]>> \o Tail(createSubRange(@, SR.LaneMask))]
               ELSE LIVs[c]],
   vni |-> r.vni,
   err |-> r.err]

\* Distribute: the subrange SR under the mapping M, distributed over the
\* subranges created for it.
distributeSub(SR, LIVs, M, arena) ==
  subDistributed(SR, LIVs, M,
    DistributeRange([segments |-> SR.segments, valnos |-> SR.valnos,
                     vni |-> arena],
                    [c \in 1..Len(LIVs) |-> SubRange(SR.LaneMask)], M))

\* Distribute: the loop over LI.subranges() from the k-th on; subsNext
\* goes on after the k-th, whose distribution gave r, and subsMapped
\* distributes the k-th under its mapping M.
RECURSIVE distributeSubs(_, _, _, _, _, _)
subsNext(li, k, done, LIVs, EC, arena, r) ==
  IF r.err # "none"
  THEN [SubRanges |-> done, LIVs |-> LIVs, vni |-> arena, err |-> r.err]
  ELSE distributeSubs(li, k + 1, Append(done, r.SR), r.LIVs, EC, r.vni)

subsMapped(li, k, done, LIVs, EC, arena, M) ==
  IF \E I \in 1..Len(M) : M[I] = -1
  THEN [SubRanges |-> done, LIVs |-> LIVs, vni |-> arena,
        err |-> "NoMainRangeDef"]
  ELSE subsNext(li, k, done, LIVs, EC, arena,
                distributeSub(li.SubRanges[k], LIVs, M, arena))

distributeSubs(li, k, done, LIVs, EC, arena) ==
  IF k > Len(li.SubRanges)
  THEN [SubRanges |-> done, LIVs |-> LIVs, vni |-> arena, err |-> "none"]
  ELSE subsMapped(li, k, done, LIVs, EC, arena,
                  subMapping(li, li.SubRanges[k], EC, arena))

\* Distribute: the interval and the targets at the end, r being the
\* outcome of DistributeRange on the main range.
mainDistributed(li, LIVs, arena, subs, r) ==
  IF r.err # "none"
  THEN [segments |-> li.segments, valnos |-> li.valnos, vni |-> arena,
        SubRanges |-> li.SubRanges, LIV |-> LIVs, err |-> r.err]
  ELSE [segments |-> r.segments, valnos |-> r.valnos, vni |-> r.vni,
        SubRanges |-> subs, LIV |-> r.SplitLRs, err |-> "none"]

\* Distribute: the main range, after the subranges, whose outcome is s.
distributeMain(li, LIVs, EC, arena, s) ==
  IF s.err # "none"
  THEN [segments |-> li.segments, valnos |-> li.valnos, vni |-> arena,
        SubRanges |-> li.SubRanges, LIV |-> LIVs, err |-> s.err]
  ELSE mainDistributed(li, LIVs, arena, removeEmptySubRanges(s.SubRanges),
         DistributeRange([segments |-> li.segments, valnos |-> li.valnos,
                          vni |-> s.vni], s.LIVs, EC))

\* ConnectedVNInfoEqClasses::Distribute, but for the rewriting of the
\* machine operands, which touches no live interval.
Distribute(li, LIVs, EC, arena) ==
  distributeMain(li, LIVs, EC, arena,
                 distributeSubs(li, 1, <<>>, LIVs, EC, arena))

----------------------------------------------------------------------------
\* CalcLiveRangeUtilSet: the shared algorithms on the segment set.  The set
\* is a sequence in the iteration order of the std::set, which orders its
\* elements by Segment::operator<, the comparison of (start, end).

SegmentLess(A, B) ==
  A.start < B.start \/ (A.start = B.start /\ A.end < B.end)

\* std::set::upper_bound(S): the first element that S is less than
RECURSIVE setUpperBound(_, _, _)
setUpperBound(set, S, I) ==
  IF I > Len(set) \/ SegmentLess(S, set[I]) THEN I
  ELSE setUpperBound(set, S, I + 1)

\* std::set::insert(hint, S): S goes to its place in the order whatever
\* the hint is, and is not inserted when an equivalent element is there.
setInsert(set, S) ==
  IF \E k \in 1..Len(set) : ~SegmentLess(set[k], S) /\ ~SegmentLess(S, set[k])
  THEN set
  ELSE Insert(set, setUpperBound(set, S, 1), S)

\* CalcLiveRangeUtilSet::find without the look at the element before the
\* upper bound.
findSetNoPrev(set, Pos) ==
  setUpperBound(set, Segment(Pos, getNextSlot(Pos), nullptr), 1)

\* CalcLiveRangeUtilSet::find
findSet(set, Pos) ==
  LET I == setUpperBound(set, Segment(Pos, getNextSlot(Pos), nullptr), 1) IN
  IF I = 1 THEN I
  ELSE IF Pos < set[I - 1].end THEN I - 1
  ELSE I

\* CalcLiveRangeUtilSet::findInsertPos
findInsertPosSet(set, S) ==
  LET I == setUpperBound(set, S, 1) IN
  IF I <= Len(set) /\ ~(S.start < set[I].start) THEN I + 1 ELSE I

\* createDeadDef on the set: the new value and its dead segment, inserted
\* by insertAtEnd or segments().insert(I, ...), both the set's insert
newDeadDefSet(lr, Def) ==
  DefResult([segments |-> setInsert(lr.segments,
                                    Segment(Def, getDeadSlot(Def),
                                            Len(lr.vni) + 1)),
             valnos |-> Append(lr.valnos, Len(lr.vni) + 1),
             vni |-> Append(lr.vni, VNInfo(Len(lr.valnos), Def))],
            Len(lr.vni) + 1, "none")

\* CalcLiveRangeUtilSet(this).createDeadDef(Def, VNInfoAllocator); the
\* field segments of lr is the set
createDeadDefSet(lr, Def) ==
  LET I == findSet(lr.segments, Def) IN
  IF isDead(Def) THEN DefResult(lr, nullptr, "DeadSlotDef")
  ELSE IF I = Len(lr.segments) + 1 THEN newDeadDefSet(lr, Def)
  ELSE IF isSameInstr(Def, lr.segments[I].start) THEN promoteDef(lr, I, Def)
  ELSE IF ~isEarlierInstr(Def, lr.segments[I].start)
  THEN DefResult(lr, nullptr, "AlreadyLive")
  ELSE newDeadDefSet(lr, Def)

\* CalcLiveRangeUtilSet(this).extendInBlock(StartIdx, Use)
extendInBlockSet(set, StartIdx, Use) ==
  LET P == findInsertPosSet(set, Segment(getPrevSlot(Use), Use, nullptr))
      I == P - 1
      none == [segs |-> set, ret |-> nullptr, err |-> "none"]
  IN IF set = <<>> THEN none
     ELSE IF P = 1 THEN none
     ELSE IF set[I].end <= StartIdx THEN none
     ELSE IF set[I].end < Use
          THEN LET r == extendSegmentEndTo(set, I, Use) IN
               [segs |-> r.segs, ret |-> IF r.err = "none" THEN set[I].valno
                                          ELSE nullptr, err |-> r.err]
          ELSE [segs |-> set, ret |-> set[I].valno, err |-> "none"]

\* The iterator extendSegmentStartTo returns on the set: the erase of a
\* std::set leaves the iterator I valid, on what is then the first element.
setIt(r) == IF r.stale THEN 1 ELSE r.it

\* addSegment(S) on the set: the second half, from
\* "if (I != segments().end())".
addSegmentAtISet(set, S, I) ==
  IF I <= Len(set) /\ S.valno = set[I].valno /\ set[I].start <= S.end
  THEN LET r == extendSegmentStartTo(set, I, S.start) IN
       IF r.err # "none" THEN [segs |-> set, err |-> r.err]
       ELSE IF S.end > r.segs[setIt(r)].end
            THEN LET q == extendSegmentEndTo(r.segs, setIt(r), S.end) IN
                 IF q.err # "none" THEN [segs |-> set, err |-> q.err] ELSE q
            ELSE [segs |-> r.segs, err |-> "none"]
  ELSE IF I <= Len(set) /\ S.valno # set[I].valno /\ ~(set[I].start >= S.end)
  THEN [segs |-> set, err |-> "OverlapMismatch"]
  ELSE [segs |-> setInsert(set, S), err |-> "none"]

\* LiveRange::addSegmentToSet: CalcLiveRangeUtilSet(this).addSegment(S)
addSegmentToSet(set, S) ==
  LET I == findInsertPosSet(set, S)
      B == I - 1
  IN IF I # 1 /\ S.valno = set[B].valno
          /\ set[B].start <= S.start /\ set[B].end >= S.start
     THEN extendSegmentEndTo(set, B, S.end)
     ELSE IF I # 1 /\ S.valno # set[B].valno /\ ~(set[B].end <= S.start)
     THEN [segs |-> set, err |-> "OverlapMismatch"]
     ELSE addSegmentAtISet(set, S, I)

\* LiveRange::flushSegmentSet; both asserts are the spec's
\* AppendPrecondition, and the verify() that closes it may fire its own.
flushSegmentSet(lr, set) ==
  IF set = <<>> \/ lr.segments # <<>>
  THEN [segments |-> lr.segments, segmentSet |-> set,
        err |-> "AppendPrecondition"]
  ELSE IF ~verify(lr.segments \o set[1], lr.valnos, lr.vni)
  THEN [segments |-> lr.segments, segmentSet |-> set, err |-> "VerifyFailed"]
  ELSE [segments |-> lr.segments \o set[1], segmentSet |-> <<>>,
        err |-> "none"]

----------------------------------------------------------------------------
\* ConnectedSubRegClasses.  An operand MO of the register is a record
\* [Instr, isDef, isEarlyClobber, readsReg, LaneMask, reg]: its parent
\* instruction, its flags, the lane mask of its subregister index and the
\* register it names.  Intervals is the list of the registers of the
\* intervals, the class k in Intervals[k + 1].

\* SlotIndexes::getInstructionIndex, SlotIndex::getBaseIndex and getRegSlot
getInstructionIndex(MI) == MI * SlotsPerInstr
getBaseIndex(s) == (s \div SlotsPerInstr) * SlotsPerInstr
getRegSlot(s, EC) == getBaseIndex(s) + (IF EC THEN 1 ELSE 2)

\* ~0u, the ID of an operand no subrange has decided: all bits set, the
\* largest unsigned, kept here as the signed number of the same bits
NoID == -1

\* ConnectedVNInfoEqClasses::getEqClass
getEqClass(ConEQ, VNI) == ConEQ[VNI.id + 1]

\* The number of components counted so far
RECURSIVE NumComponents(_)
NumComponents(infos) ==
  IF infos = <<>> THEN 0
  ELSE infos[Len(infos)].Num + NumComponents(SubSeq(infos, 1, Len(infos) - 1))

\* findComponents, first step: SubRangeInfo(LIS, SR, NumComponents) and
\* ConEQ.Classify(SR) for every subrange
RECURSIVE subRangeInfos(_, _, _, _)
subRangeInfos(subs, arena, Preds, infos) ==
  IF Len(infos) = Len(subs) THEN infos
  ELSE subRangeInfos(subs, arena, Preds,
         Append(infos,
           [ConEQ |-> Classify(LRof(subs[Len(infos) + 1].segments,
                                    subs[Len(infos) + 1].valnos, arena),
                               Preds).EqClass,
            Index |-> NumComponents(infos),
            Num |-> Classify(LRof(subs[Len(infos) + 1].segments,
                                  subs[Len(infos) + 1].valnos, arena),
                             Preds).ret]))

\* findComponents: the slot at which an operand is looked up
operandSlot(MO) ==
  IF MO.isDef
  THEN getRegSlot(getInstructionIndex(MO.Instr), MO.isEarlyClobber)
  ELSE getBaseIndex(getInstructionIndex(MO.Instr))

\* findComponents, the loop over the subranges for the operand MO, from
\* the subrange k on
RECURSIVE mergeOperand(_, _, _, _, _, _, _)
mergeOperand(Classes, infos, subs, arena, MO, k, MergedID) ==
  IF k > Len(subs) THEN Classes
  ELSE IF subs[k].LaneMask \cap MO.LaneMask = {}
  THEN mergeOperand(Classes, infos, subs, arena, MO, k + 1, MergedID)
  ELSE IF getVNInfoAt(subs[k].segments, operandSlot(MO)) = nullptr
  THEN mergeOperand(Classes, infos, subs, arena, MO, k + 1, MergedID)
  ELSE IF MergedID = NoID
  THEN mergeOperand(Classes, infos, subs, arena, MO, k + 1,
         getEqClass(infos[k].ConEQ,
                    arena[getVNInfoAt(subs[k].segments, operandSlot(MO))])
           + infos[k].Index)
  ELSE mergeOperand(
         joinEq(Classes, MergedID,
                getEqClass(infos[k].ConEQ,
                           arena[getVNInfoAt(subs[k].segments,
                                             operandSlot(MO))])
                  + infos[k].Index),
         infos, subs, arena, MO, k + 1,
         Min(Classes[MergedID + 1],
             Classes[getEqClass(infos[k].ConEQ,
                                arena[getVNInfoAt(subs[k].segments,
                                                  operandSlot(MO))])
                       + infos[k].Index + 1]))

\* findComponents, the loop over the operands of the register
RECURSIVE mergeOperands(_, _, _, _, _, _)
mergeOperands(Classes, infos, subs, arena, MOs, m) ==
  IF m > Len(MOs) THEN Classes
  ELSE IF ~MOs[m].isDef /\ ~MOs[m].readsReg
  THEN mergeOperands(Classes, infos, subs, arena, MOs, m + 1)
  ELSE mergeOperands(mergeOperand(Classes, infos, subs, arena, MOs[m], 1, NoID),
                     infos, subs, arena, MOs, m + 1)

\* findComponents from "if (SubRangeInfos.size() < 2)" on
componentsOf(infos, subs, arena, MOs) ==
  IF Len(infos) < 2
  THEN [SubRangeInfos |-> infos, Classes |-> <<>>, ret |-> FALSE]
  ELSE [SubRangeInfos |-> infos,
        Classes |-> compress(mergeOperands(grow(NumComponents(infos)), infos,
                                           subs, arena, MOs, 1)),
        ret |-> getNumClasses(compress(
                  mergeOperands(grow(NumComponents(infos)), infos,
                                subs, arena, MOs, 1))) > 1]

\* ConnectedSubRegClasses::findComponents
findComponents(subs, arena, Preds, MOs) ==
  componentsOf(subRangeInfos(subs, arena, Preds, <<>>), subs, arena, MOs)

\* rewriteOperands, the loop over the subranges for the operand MO: the ID
\* it leaves
RECURSIVE rewriteID(_, _, _, _, _, _)
rewriteID(Classes, infos, subs, arena, MO, k) ==
  IF k > Len(subs) THEN NoID
  ELSE IF subs[k].LaneMask \cap MO.LaneMask = {}
  THEN rewriteID(Classes, infos, subs, arena, MO, k + 1)
  ELSE IF find(subs[k].segments, getInstructionIndex(MO.Instr))
            = Len(subs[k].segments) + 1
  THEN rewriteID(Classes, infos, subs, arena, MO, k + 1)
  ELSE Classes[getEqClass(infos[k].ConEQ,
                          arena[subs[k].segments[
                                  find(subs[k].segments,
                                       getInstructionIndex(MO.Instr))].valno])
                 + infos[k].Index + 1]

\* rewriteOperands: "unsigned VReg = Intervals[ID]->reg; MO.setReg(VReg);".
\* Intervals[ID] with ID not below Intervals.size() is a read outside the
\* vector: wild is what it yields, -1 for the assert of operator[] firing
\* and a register otherwise.
setReg(MO, ID, Intervals, wild) ==
  IF ID # NoID /\ ID < Len(Intervals)
  THEN [MO EXCEPT !.reg = Intervals[ID + 1].reg]
  ELSE [MO EXCEPT !.reg = wild]

\* ConnectedSubRegClasses::rewriteOperands
rewriteOperands(Classes, infos, subs, arena, Intervals, MOs, wild) ==
  [m \in 1..Len(MOs) |->
     IF ~MOs[m].isDef /\ ~MOs[m].readsReg THEN MOs[m]
     ELSE setReg(MOs[m], rewriteID(Classes, infos, subs, arena, MOs[m], 1),
                 Intervals, wild)]

----------------------------------------------------------------------------

\* The state machine: one LiveRange, one LiveRangeUpdater attached to it.

VARIABLES
  segments,   \* LiveRange::segments
  valnos,     \* LiveRange::valnos, a sequence of VNInfo handles
  vni,        \* the VNInfo arena: handle -> [id, def, unused, phi]
  LastStart,  \* LiveRangeUpdater::LastStart
  WriteI,     \* LiveRangeUpdater::WriteI
  ReadI,      \* LiveRangeUpdater::ReadI
  Spills,     \* LiveRangeUpdater::Spills
  err,        \* "none", or the assert that halted the program
  mode,       \* "run": any sequence of calls; "once": one recorded call;
              \* "upd": one updater session with the expected point map
  op,         \* the last call, its arguments and return value (not in "run")
  pre,        \* the LiveRange before the last call (not in "run")
  expect,     \* "upd": point -> value number expected after flush()
  calls,      \* "run": number of calls made so far
  EqClass,    \* ConnectedVNInfoEqClasses::EqClass: id + 1 -> class
  SubRanges,  \* LiveInterval::SubRanges of the interval of this range
  LIV,        \* the intervals handed to Distribute to receive components
  segmentSet, \* LiveRange::segmentSet: <<>> is nullptr, <<set>> owns the
              \* set, a sequence in the iteration order of the std::set
  Operands    \* the operands of the interval's register, each with the
              \* register it names

vars == <<segments, valnos, vni, LastStart, WriteI, ReadI, Spills, err,
          mode, op, pre, expect, calls, EqClass, SubRanges, LIV,
          segmentSet, Operands>>

updVars == <<LastStart, WriteI, ReadI, Spills>>

eqVars == <<EqClass, SubRanges, LIV>>

LR == LRof(segments, valnos, vni)
Updater == [segs |-> segments, LastStart |-> LastStart, WriteI |-> WriteI,
            ReadI |-> ReadI, Spills |-> Spills, err |-> "none"]

\* Value numbers a caller may name: those in the table of lr.
TableVNs(lr) == {lr.valnos[k] : k \in 1..Len(lr.valnos)}
LiveVNs(lr) == {v \in TableVNs(lr) : ~lr.vni[v].unused}
SegVNs(segs) == {segs[k].valno : k \in 1..Len(segs)}

\* Segments a caller may pass: start < end, both valid slots.
SegmentsOver(S, VNs) ==
  {Segment(a, b, v) : <<a, b>> \in {x \in S \X S : x[1] < x[2]}, v \in VNs}

\* The program is running and, in mode "once", has made no call yet.
Ready == /\ err = "none"
         /\ mode \in {"run", "once"}
         /\ (mode = "once" => op.name = "init")
         /\ (mode = "run" => calls < MaxCalls)
         /\ ~isValid(LastStart)

Track(o) ==
  /\ op' = IF mode = "run" THEN op ELSE o
  /\ pre' = IF mode = "run" THEN pre ELSE LR
  /\ calls' = IF mode = "run" THEN calls + 1 ELSE calls
  /\ UNCHANGED <<mode, expect>>
  /\ UNCHANGED <<eqVars, segmentSet, Operands>>

SetLR(r) ==
  /\ segments' = r.segments
  /\ valnos' = r.valnos
  /\ vni' = r.vni
  /\ err' = r.err

Init ==
  /\ segments = <<>>
  /\ valnos = <<>>
  /\ vni = <<>>
  /\ LastStart = InvalidSlot
  /\ WriteI = InvalidIt
  /\ ReadI = InvalidIt
  /\ Spills = <<>>
  /\ err = "none"
  /\ mode = "run"
  /\ op = [name |-> "init"]
  /\ pre = <<>>
  /\ expect = <<>>
  /\ calls = 0
  /\ EqClass = <<>>
  /\ SubRanges = <<>>
  /\ LIV = <<>>
  /\ segmentSet = <<>>
  /\ Operands = <<>>

\* LiveRange::createDeadDef on the segment vector
CreateDeadDef(Def) ==
  /\ Ready
  /\ getDeadSlot(Def) <= MaxSlot
  /\ LET r == createDeadDef(LR, Def) IN
       /\ mode = "run" => Len(r.vni) <= MaxVN
       /\ SetLR(r)
       /\ Track([name |-> "createDeadDef", Def |-> Def, ret |-> r.ret])
  /\ UNCHANGED updVars

\* LiveRange::extendInBlock on the segment vector
ExtendInBlock(StartIdx, Use) ==
  /\ Ready
  /\ LET r == extendInBlock(segments, StartIdx, Use) IN
       /\ segments' = r.segs
       /\ err' = r.err
       /\ Track([name |-> "extendInBlock", StartIdx |-> StartIdx,
                 Use |-> Use, ret |-> r.ret])
  /\ UNCHANGED <<valnos, vni>>
  /\ UNCHANGED updVars

\* LiveRange::addSegment on the segment vector
AddSegment(S) ==
  /\ Ready
  /\ S.valno \in LiveVNs(LR)
  /\ LET r == addSegment(segments, S) IN
       /\ segments' = r.segs
       /\ err' = r.err
       /\ Track([name |-> "addSegment", S |-> S])
  /\ UNCHANGED <<valnos, vni>>
  /\ UNCHANGED updVars

\* LiveRange::append
AppendCall(S) ==
  /\ Ready
  /\ S.valno \in LiveVNs(LR)
  /\ LET r == append(segments, S) IN
       /\ segments' = r.segs
       /\ err' = r.err
       /\ Track([name |-> "append", S |-> S])
  /\ UNCHANGED <<valnos, vni>>
  /\ UNCHANGED updVars

\* LiveRange::removeSegment
RemoveSegment(Start, End, RemoveDeadValNo) ==
  /\ Ready
  /\ LET r == removeSegment(LR, Start, End, RemoveDeadValNo) IN
       /\ SetLR(r)
       /\ Track([name |-> "removeSegment", Start |-> Start, End |-> End,
                 RemoveDeadValNo |-> RemoveDeadValNo])
  /\ UNCHANGED updVars

\* LiveRange::removeValNo
RemoveValNo(ValNo) ==
  /\ Ready
  /\ ValNo \in TableVNs(LR)
  /\ LET r == removeValNo(LR, ValNo) IN
       /\ segments' = r.segments /\ valnos' = r.valnos /\ vni' = r.vni
       /\ Track([name |-> "removeValNo", ValNo |-> ValNo])
  /\ UNCHANGED err
  /\ UNCHANGED updVars

\* LiveRange::markValNoForDeletion, called on a value number of this range
\* that is dead (no segment refers to it).
MarkValNoForDeletion(ValNo) ==
  /\ Ready
  /\ ValNo \in TableVNs(LR)
  /\ ValNo \notin SegVNs(segments)
  /\ LET r == markValNoForDeletion(LR, ValNo) IN
       /\ valnos' = r.valnos /\ vni' = r.vni
       /\ Track([name |-> "markValNoForDeletion", ValNo |-> ValNo])
  /\ UNCHANGED <<segments, err>>
  /\ UNCHANGED updVars

\* LiveRange::MergeValueNumberInto on two values of this range
MergeValueNumberIntoCall(V1, V2) ==
  /\ Ready
  /\ V1 \in LiveVNs(LR) /\ V2 \in LiveVNs(LR)
  /\ LET r == MergeValueNumberInto(LR, V1, V2) IN
       /\ SetLR(r)
       /\ Track([name |-> "MergeValueNumberInto", V1 |-> V1, V2 |-> V2,
                 ret |-> r.ret])
  /\ UNCHANGED updVars

\* LiveRange::RenumberValues
RenumberValuesCall ==
  /\ Ready
  /\ LET r == RenumberValues(LR) IN
       /\ SetLR(r)
       /\ Track([name |-> "RenumberValues"])
  /\ UNCHANGED updVars

\* LiveRange::MergeSegmentsInAsValue with a live value of this range
MergeSegmentsInAsValueCall(RHS, LHSValNo) ==
  /\ Ready /\ mode = "once"
  /\ LHSValNo \in LiveVNs(LR)
  /\ LET u == MergeSegmentsInAsValue(LR, RHS.segments, LHSValNo) IN
       /\ segments' = IF u.err = "none" THEN u.segs ELSE segments
       /\ err' = u.err
       /\ Track([name |-> "MergeSegmentsInAsValue", RHS |-> RHS.segments,
                 LHSValNo |-> LHSValNo])
  /\ UNCHANGED <<valnos, vni>>
  /\ UNCHANGED updVars

\* LiveRange::RenumberValues called a second time, right after the first
RenumberValuesAgain ==
  /\ err = "none"
  /\ mode = "once"
  /\ op.name = "RenumberValues"
  /\ LET r == RenumberValues(LR) IN
       /\ SetLR(r)
       /\ Track([name |-> "RenumberValuesAgain"])
  /\ UNCHANGED updVars

\* The points of Seg: slot p is cell p + 1.
InSeg(Seg, p) == Seg.start <= p /\ p < Seg.end

\* The updater may be called: in a call sequence, or in an updater session
\* that has not flushed yet.
UpdaterReady ==
  /\ err = "none"
  /\ \/ mode = "run" /\ calls < MaxCalls
     \/ mode = "upd" /\ op.name \notin {"flush", "flushAgain"}

\* LiveRangeUpdater::add on the updater attached to this range.  In an
\* updater session the caller adds at most MaxAdds segments, none of which
\* overlaps a point that carries another value number.
UpdaterAdd(Seg) ==
  /\ UpdaterReady
  /\ Seg.valno \in LiveVNs(LR)
  /\ mode = "upd" =>
       /\ calls < MaxAdds
       /\ \A p \in 1..Len(expect) :
            InSeg(Seg, p - 1) => expect[p] \in {0, Seg.valno}
  /\ LET u == add(Updater, Seg, valnos, vni) IN
       /\ segments' = u.segs
       /\ LastStart' = u.LastStart
       /\ WriteI' = u.WriteI
       /\ ReadI' = u.ReadI
       /\ Spills' = u.Spills
       /\ err' = u.err
  /\ calls' = calls + 1
  /\ expect' = IF mode = "upd"
               THEN [p \in 1..Len(expect) |->
                       IF InSeg(Seg, p - 1) THEN Seg.valno ELSE expect[p]]
               ELSE expect
  /\ op' = IF mode = "upd"
           THEN [name |-> "add", Seg |-> Seg,
                 reset |-> \/ op.name = "add" /\ op.reset
                           \/ isValid(LastStart) /\ LastStart > Seg.start]
           ELSE op
  /\ UNCHANGED <<valnos, vni, mode, pre>>
  /\ UNCHANGED <<eqVars, segmentSet, Operands>>

\* LiveRangeUpdater::flush on the updater attached to this range
UpdaterFlush ==
  /\ UpdaterReady
  /\ mode = "run" => isValid(LastStart)
  /\ LET u == flush(Updater, valnos, vni) IN
       /\ segments' = u.segs
       /\ LastStart' = u.LastStart
       /\ WriteI' = u.WriteI
       /\ ReadI' = u.ReadI
       /\ Spills' = u.Spills
       /\ err' = u.err
  /\ calls' = IF mode = "run" THEN calls + 1 ELSE calls
  /\ op' = IF mode = "upd"
           THEN [name |-> "flush", reset |-> op.name = "add" /\ op.reset]
           ELSE op
  /\ UNCHANGED <<valnos, vni, mode, pre, expect>>
  /\ UNCHANGED <<eqVars, segmentSet, Operands>>

\* LiveRangeUpdater::flush called a second time, right after the first
UpdaterFlushAgain ==
  /\ err = "none"
  /\ mode = "upd"
  /\ op.name = "flush"
  /\ LET u == flush(Updater, valnos, vni) IN
       /\ segments' = u.segs
       /\ LastStart' = u.LastStart
       /\ WriteI' = u.WriteI
       /\ ReadI' = u.ReadI
       /\ Spills' = u.Spills
       /\ err' = u.err
  /\ op' = [name |-> "flushAgain", reset |-> op.reset]
  /\ pre' = Updater
  /\ UNCHANGED <<valnos, vni, mode, expect, calls>>
  /\ UNCHANGED <<eqVars, segmentSet, Operands>>

\* ConnectedVNInfoEqClasses::Classify on this range, under the
\* control-flow graph Preds
ClassifyCall(Preds) ==
  /\ Ready /\ mode = "once"
  /\ LET r == Classify(LR, Preds) IN
       /\ EqClass' = r.EqClass
       /\ op' = [name |-> "Classify", Preds |-> Preds, ret |-> r.ret]
  /\ pre' = LR
  /\ UNCHANGED <<segments, valnos, vni, err, mode, expect, calls>>
  /\ UNCHANGED <<SubRanges, LIV, segmentSet, Operands>>
  /\ UNCHANGED updVars

\* DistributeRange of this range into the main ranges of the intervals LIV
DistributeRangeCall(VNIClasses) ==
  /\ Ready /\ mode = "once"
  /\ LET r == DistributeRange(LR, LIV, VNIClasses) IN
       /\ SetLR(r)
       /\ LIV' = r.SplitLRs
  /\ op' = [name |-> "DistributeRange", VNIClasses |-> VNIClasses,
            SplitLRs |-> LIV]
  /\ pre' = LR
  /\ UNCHANGED <<segmentSet, Operands, mode, expect, calls, EqClass, SubRanges>>
  /\ UNCHANGED updVars

\* ConnectedVNInfoEqClasses::Distribute of the interval of this range,
\* after Classify, into the empty intervals the caller has created, one
\* for each class but class 0
DistributeCall ==
  /\ err = "none"
  /\ mode = "once"
  /\ op.name = "Classify"
  /\ LET r == Distribute(Interval(segments, valnos, SubRanges),
                         [c \in 1..(op.ret - 1) |-> Interval(<<>>, <<>>, <<>>)],
                         EqClass, vni)
     IN /\ SetLR(r)
        /\ SubRanges' = r.SubRanges
        /\ LIV' = r.LIV
  /\ op' = [name |-> "Distribute", Preds |-> op.Preds, ret |-> op.ret,
            SubRanges |-> SubRanges]
  /\ pre' = LR
  /\ UNCHANGED <<segmentSet, Operands, mode, expect, calls, EqClass>>
  /\ UNCHANGED updVars

\* LiveInterval::removeEmptySubRanges on the interval of this range
RemoveEmptySubRangesCall ==
  /\ Ready /\ mode = "once"
  /\ SubRanges' = removeEmptySubRanges(SubRanges)
  /\ op' = [name |-> "removeEmptySubRanges", SubRanges |-> SubRanges]
  /\ pre' = LR
  /\ UNCHANGED <<segments, valnos, vni, err, mode, expect, calls>>
  /\ UNCHANGED <<EqClass, LIV, segmentSet, Operands>>
  /\ UNCHANGED updVars

\* The segments and uses handed to a LiveRange with a segment set lie in
\* the slots 0..SetTop, the defs in 0..MaxSlot.
SetTop == MaxSlot - 2

\* A LiveRange built with a segment set, in mode "set": every call is made
\* on it and on a vector-backed LiveRange, kept in expect, that is given
\* the same calls.
SetReady ==
  /\ err = "none"
  /\ mode = "set"
  /\ expect.err = "none"
  /\ calls < MaxCalls

\* The collection the LiveRange methods dispatch to
UsesSet == segmentSet # <<>>
Coll == IF UsesSet THEN segmentSet[1] ELSE segments

\* r is the outcome of a call on the collection in use, t the same call's
\* on the vector-backed range.
SetStep(o, r, t) ==
  /\ segmentSet' = IF UsesSet THEN <<r.segments>> ELSE segmentSet
  /\ segments' = IF UsesSet THEN segments ELSE r.segments
  /\ valnos' = r.valnos
  /\ vni' = r.vni
  /\ err' = r.err
  /\ expect' = t
  /\ op' = [o EXCEPT !.segmentSet = segmentSet, !.ret = r.ret]
  /\ pre' = LR
  /\ calls' = calls + 1
  /\ UNCHANGED <<mode, EqClass, SubRanges, LIV, Operands>>
  /\ UNCHANGED updVars

Twin(segs, vals, arena, r, e) ==
  [segments |-> segs, valnos |-> vals, vni |-> arena, ret |-> r, err |-> e]

\* LiveRange::createDeadDef
LRCreateDeadDef(Def) ==
  /\ SetReady
  /\ getDeadSlot(Def) <= MaxSlot
  /\ Len(vni) < MaxVN
  /\ SetStep([name |-> "createDeadDef", Def |-> Def, segmentSet |-> <<>>,
              ret |-> nullptr],
             IF UsesSet THEN createDeadDefSet(LRof(Coll, valnos, vni), Def)
             ELSE createDeadDef(LR, Def),
             createDeadDef(LRof(expect.segments, expect.valnos, expect.vni),
                           Def))

\* The outcome of a call that leaves the value numbers alone
SegsResult(r, vals, arena, ret) == Twin(r.segs, vals, arena, ret, r.err)

\* LiveRange::extendInBlock
LRExtendInBlock(StartIdx, Use) ==
  /\ SetReady
  /\ StartIdx < Use
  /\ SetStep([name |-> "extendInBlock", StartIdx |-> StartIdx, Use |-> Use,
              segmentSet |-> <<>>, ret |-> nullptr],
             IF UsesSet
             THEN SegsResult(extendInBlockSet(Coll, StartIdx, Use),
                             valnos, vni,
                             extendInBlockSet(Coll, StartIdx, Use).ret)
             ELSE SegsResult(extendInBlock(Coll, StartIdx, Use), valnos, vni,
                             extendInBlock(Coll, StartIdx, Use).ret),
             SegsResult(extendInBlock(expect.segments, StartIdx, Use),
                        expect.valnos, expect.vni,
                        extendInBlock(expect.segments, StartIdx, Use).ret))

\* LiveRange::addSegment
LRAddSegment(S) ==
  /\ SetReady
  /\ S.valno \in LiveVNs(LR)
  /\ SetStep([name |-> "addSegment", S |-> S, segmentSet |-> <<>>,
              ret |-> nullptr],
             IF UsesSet
             THEN SegsResult(addSegmentToSet(Coll, S), valnos, vni, nullptr)
             ELSE SegsResult(addSegment(Coll, S), valnos, vni, nullptr),
             SegsResult(addSegment(expect.segments, S),
                        expect.valnos, expect.vni, nullptr))

\* LiveRangeUpdater::add on a LiveRange with a segment set: the segment
\* goes to the set and the updater is left as it was
UpdaterAddToSet(Seg) ==
  /\ SetReady
  /\ UsesSet
  /\ Seg.valno \in LiveVNs(LR)
  /\ SetStep([name |-> "add", Seg |-> Seg, segmentSet |-> <<>>,
              ret |-> nullptr],
             SegsResult(addSegmentToSet(Coll, Seg), valnos, vni, nullptr),
             SegsResult(addSegment(expect.segments, Seg),
                        expect.valnos, expect.vni, nullptr))

\* LiveRange::append, which writes the vector whether or not there is a set
LRAppend(S) ==
  /\ SetReady
  /\ S.valno \in LiveVNs(LR)
  /\ segments' = append(segments, S).segs
  /\ err' = append(segments, S).err
  /\ expect' = SegsResult(append(expect.segments, S),
                          expect.valnos, expect.vni, nullptr)
  /\ op' = [name |-> "append", S |-> S, segmentSet |-> segmentSet]
  /\ pre' = LR
  /\ calls' = calls + 1
  /\ UNCHANGED <<valnos, vni, segmentSet, mode, EqClass, SubRanges, LIV,
               Operands>>
  /\ UNCHANGED updVars

\* LiveRange::flushSegmentSet
FlushSegmentSetCall ==
  /\ SetReady
  /\ segments' = flushSegmentSet(LR, segmentSet).segments
  /\ segmentSet' = flushSegmentSet(LR, segmentSet).segmentSet
  /\ err' = flushSegmentSet(LR, segmentSet).err
  /\ op' = [name |-> "flushSegmentSet", segmentSet |-> segmentSet]
  /\ pre' = LR
  /\ calls' = calls + 1
  /\ UNCHANGED <<valnos, vni, expect, mode, EqClass, SubRanges, LIV,
               Operands>>
  /\ UNCHANGED updVars

\* ConnectedSubRegClasses::renameComponents up to its call of
\* rewriteOperands: findComponents under the control-flow graph Preds and,
\* when it finds more than one class, the list Intervals of the interval
\* itself (register 1) and a new register for every other class
FindComponentsCall(Preds) ==
  /\ Ready /\ mode = "once"
  /\ Len(valnos) >= 2
  /\ op' = [name |-> "findComponents", Preds |-> Preds,
            SubRangeInfos |->
              findComponents(SubRanges, vni, Preds, Operands).SubRangeInfos,
            Classes |-> findComponents(SubRanges, vni, Preds, Operands).Classes,
            ret |-> findComponents(SubRanges, vni, Preds, Operands).ret]
  /\ LIV' = IF findComponents(SubRanges, vni, Preds, Operands).ret
            THEN [k \in 1..getNumClasses(
                          findComponents(SubRanges, vni, Preds,
                                         Operands).Classes) |-> [reg |-> k]]
            ELSE LIV
  /\ pre' = LR
  /\ UNCHANGED <<segments, valnos, vni, err, mode, expect, calls>>
  /\ UNCHANGED <<EqClass, SubRanges, segmentSet, Operands>>
  /\ UNCHANGED updVars

\* ConnectedSubRegClasses::rewriteOperands, called by renameComponents
\* when findComponents has returned true
RewriteOperandsCall(wild) ==
  /\ err = "none"
  /\ mode = "once"
  /\ op.name = "findComponents"
  /\ op.ret
  /\ IF \E m \in 1..Len(Operands) :
          rewriteOperands(op.Classes, op.SubRangeInfos, SubRanges, vni, LIV,
                          Operands, wild)[m].reg = -1
     THEN err' = "IndexOutOfRange" /\ Operands' = Operands
     ELSE /\ err' = err
          /\ Operands' = rewriteOperands(op.Classes, op.SubRangeInfos,
                                         SubRanges, vni, LIV, Operands, wild)
  /\ op' = [name |-> "rewriteOperands", Classes |-> op.Classes,
            SubRangeInfos |-> op.SubRangeInfos, Operands |-> Operands]
  /\ pre' = LR
  /\ UNCHANGED <<segments, valnos, vni, mode, expect, calls>>
  /\ UNCHANGED <<EqClass, SubRanges, LIV, segmentSet>>
  /\ UNCHANGED updVars

\* The other ranges handed to join: valid ranges over the slots 0..top whose
\* n value numbers are the arena handles base+1..base+n, value k defined at
\* the start of its first segment.
RECURSIVE CellsToSegs(_, _, _)
CellsToSegs(cells, p, base) ==
  IF p > Len(cells) THEN <<>>
  ELSE LET rest == CellsToSegs(cells, p + 1, base) IN
       IF cells[p] = 0 THEN rest
       ELSE IF rest # <<>> /\ rest[1].start = p /\ rest[1].valno = base + cells[p]
       THEN <<[rest[1] EXCEPT !.start = p - 1]>> \o Tail(rest)
       ELSE <<Segment(p - 1, p, base + cells[p])>> \o rest

FirstStart(segs, v) ==
  IF \E k \in 1..Len(segs) : segs[k].valno = v
  THEN segs[CHOOSE k \in 1..Len(segs) :
              /\ segs[k].valno = v
              /\ \A j \in 1..(k - 1) : segs[j].valno # v].start
  ELSE 0

RangesOver(top, n, base) ==
  {LET segs == CellsToSegs(cells, 1, base) IN
     [segments |-> segs,
      valnos |-> [k \in 1..n |-> base + k],
      vni |-> [k \in 1..n |-> VNInfo(k - 1, FirstStart(segs, base + k))]]
   : cells \in [1..top -> 0..n]}

\* LiveRange::join; the VNInfos of Other are allocated in the arena behind
\* those of this range.  The caller maps every value number that a segment
\* of either range carries to an entry of NewVNInfo that is not null.
Join(Other, LHS, RHS, New) ==
  /\ Ready
  /\ Len(LHS) = Len(valnos)
  /\ Len(RHS) = Len(Other.valnos)
  /\ \A k \in 1..Len(LHS) : LHS[k] < Len(New)
  /\ \A k \in 1..Len(RHS) : RHS[k] < Len(New)
  /\ \A k \in 1..Len(New) :
        /\ New[k] \in {nullptr} \cup TableVNs(LR) \cup TableVNs(Other)
        /\ \A j \in 1..(k - 1) : New[k] # nullptr => New[j] # New[k]
  /\ \A k \in 1..Len(segments) :
        New[LHS[vni[segments[k].valno].id + 1] + 1] # nullptr
  /\ \A k \in 1..Len(Other.segments) :
        New[RHS[Other.vni[Other.segments[k].valno - Len(vni)].id + 1] + 1]
          # nullptr
  /\ LET arena == vni \o Other.vni
         r == join(LRof(segments, valnos, arena), Other, LHS, RHS, New) IN
       /\ SetLR(r)
       /\ Track([name |-> "join", Other |-> Other, LHS |-> LHS, RHS |-> RHS,
                 New |-> New, arena |-> arena])
  /\ UNCHANGED updVars

\* Sequences over S of length exactly n
SeqsOf(S, n) == [1..n -> S]

\* The NewVNInfo arrays of length m over the value numbers VNs: an entry is
\* null or a value number, and no value number occurs twice.
NewVNInfos(VNs, m) ==
  {New \in SeqsOf({nullptr} \cup VNs, m) :
     \A k \in 1..m : \A j \in 1..(k - 1) :
        New[k] # nullptr => New[j] # New[k]}

NextLR ==
  \/ \E Def \in Slots : CreateDeadDef(Def)
  \/ \E StartIdx \in Slots, Use \in Slots : ExtendInBlock(StartIdx, Use)
  \/ \E S \in SegmentsOver(Slots, LiveVNs(LR)) : AddSegment(S)
  \/ \E Start \in Slots, End \in Slots, f \in BOOLEAN :
       RemoveSegment(Start, End, f)
  \/ \E v \in TableVNs(LR) : RemoveValNo(v)
  \/ \E v \in TableVNs(LR) : MarkValNoForDeletion(v)
  \/ \E v \in LiveVNs(LR), w \in LiveVNs(LR) : MergeValueNumberIntoCall(v, w)
  \/ RenumberValuesCall

\* join in a call sequence: the plain union, where Other has at most
\* MaxOtherVN values and lies in the first JoinTop slots, no value is mapped
\* (LHS is the identity) and NewVNInfo lists the values of this range and
\* then those of Other.
NextJoin ==
  /\ Ready
  /\ \E n \in 0..MaxOtherVN :
       \E Other \in RangesOver(JoinTop, n, Len(vni)) :
         /\ Len(valnos) + n > 0
         /\ Join(Other,
                 [k \in 1..Len(valnos) |-> k - 1],
                 [k \in 1..n |-> Len(valnos) + k - 1],
                 valnos \o Other.valnos)

NextUpdater ==
  \/ \E S \in SegmentsOver(Slots, LiveVNs(LR)) : UpdaterAdd(S)
  \/ UpdaterFlush

Next == NextLR \/ NextJoin \/ NextUpdater

Spec == Init /\ [][Next]_vars

\* The calls on the range alone: no join, no updater.
SpecLR == Init /\ [][NextLR]_vars

----------------------------------------------------------------------------
\* Single calls on an arbitrary valid range.

\* The value number live at each cell of 1..top (cell p is slot p - 1), 0
\* where the range is not live.
PointMap(segs, top) ==
  [p \in 1..top |->
     IF \E k \in 1..Len(segs) : InSeg(segs[k], p - 1)
     THEN segs[CHOOSE k \in 1..Len(segs) : InSeg(segs[k], p - 1)].valno
     ELSE 0]

\* The valid range with a given point map.
SegsOfMap(cells) == CellsToSegs(cells, 1, 0)

AddTop == MaxSlot - 2
QueryTop == MaxSlot - 3
UpdTop == MaxSlot - 3

InitLR(R, m, top) ==
  /\ \E r \in R :
       /\ segments = r.segments
       /\ valnos = r.valnos
       /\ vni = r.vni
       /\ expect = IF m = "upd" THEN PointMap(r.segments, top) ELSE <<>>
  /\ LastStart = InvalidSlot
  /\ WriteI = InvalidIt
  /\ ReadI = InvalidIt
  /\ Spills = <<>>
  /\ err = "none"
  /\ mode = m
  /\ op = [name |-> "init"]
  /\ pre = <<>>
  /\ calls = 0

InitFrom(R, m, top) ==
  /\ InitLR(R, m, top)
  /\ EqClass = <<>>
  /\ SubRanges = <<>>
  /\ LIV = <<>>
  /\ segmentSet = <<>>
  /\ Operands = <<>>

\* LiveRange::find
Find(Pos) ==
  /\ Ready /\ mode = "once"
  /\ Track([name |-> "find", Pos |-> Pos, ret |-> find(segments, Pos)])
  /\ UNCHANGED <<segments, valnos, vni, err>>
  /\ UNCHANGED updVars

\* LiveRange::overlapsFrom(Other, Other.begin()) on two ranges that are
\* not empty
OverlapsFrom(Other) ==
  /\ Ready /\ mode = "once"
  /\ segments # <<>>
  /\ Other.segments # <<>>
  /\ LET r == overlapsFrom(segments, Other.segments, 1) IN
       /\ err' = r.err
       /\ Track([name |-> "overlapsFrom", Other |-> Other.segments,
                 ret |-> r.ret])
  /\ UNCHANGED <<segments, valnos, vni>>
  /\ UNCHANGED updVars

\* LiveRange::overlaps(Other, CP, Indexes) on a range that is not empty
OverlapsCP(Other, Coal) ==
  /\ Ready /\ mode = "once"
  /\ segments # <<>>
  /\ LET r == overlapsCP(segments, Other.segments, Coal) IN
       /\ err' = r.err
       /\ Track([name |-> "overlapsCP", Other |-> Other.segments,
                 Coal |-> Coal, ret |-> r.ret])
  /\ UNCHANGED <<segments, valnos, vni>>
  /\ UNCHANGED updVars

\* LiveRange::covers
Covers(Other) ==
  /\ Ready /\ mode = "once"
  /\ Track([name |-> "covers", Other |-> Other.segments,
            ret |-> covers(segments, Other.segments)])
  /\ UNCHANGED <<segments, valnos, vni, err>>
  /\ UNCHANGED updVars

\* LiveRange::isLiveAtIndexes
IsLiveAtIndexes(SlotList) ==
  /\ Ready /\ mode = "once"
  /\ Track([name |-> "isLiveAtIndexes", Slots |-> SlotList,
            ret |-> isLiveAtIndexes(segments, SlotList)])
  /\ UNCHANGED <<segments, valnos, vni, err>>
  /\ UNCHANGED updVars

\* addSegment on every valid range over the slots 0..AddTop
InitAdd == InitFrom(RangesOver(AddTop, MaxVN, 0), "once", AddTop)
NextAdd == \E S \in SegmentsOver(0..AddTop, LiveVNs(LR)) : AddSegment(S)
SpecAdd == InitAdd /\ [][NextAdd]_vars

\* find on every valid range over the slots 0..QueryTop
InitQuery == InitFrom(RangesOver(QueryTop, MaxVN, 0), "once", QueryTop)
NextFind == \E Pos \in 0..(QueryTop + 1) : Find(Pos)
SpecFind == InitQuery /\ [][NextFind]_vars

\* overlapsFrom on every pair of valid ranges over the slots 0..QueryTop
NextOverlaps ==
  \E Other \in RangesOver(QueryTop, MaxOtherVN, MaxVN) : OverlapsFrom(Other)
SpecOverlaps == InitQuery /\ [][NextOverlaps]_vars

\* overlaps(Other, CP, Indexes) on every pair of valid ranges over the
\* slots 0..QueryTop and every set of coalescable instructions
Instrs == 0..((QueryTop - 1) \div SlotsPerInstr)
NextOverlapsCP ==
  \E Other \in RangesOver(QueryTop, MaxOtherVN, MaxVN) :
    \E Coal \in SUBSET Instrs : OverlapsCP(Other, Coal)
SpecOverlapsCP == InitQuery /\ [][NextOverlapsCP]_vars

\* covers on every pair of valid ranges over the slots 0..QueryTop
NextCovers ==
  \E Other \in RangesOver(QueryTop, MaxOtherVN, MaxVN) : Covers(Other)
SpecCovers == InitQuery /\ [][NextCovers]_vars

\* isLiveAtIndexes on every valid range over the slots 0..QueryTop and
\* every list of up to MaxSlotList slots
SlotLists == UNION {SeqsOf(0..QueryTop, n) : n \in 0..MaxSlotList}
NextLive == \E SlotList \in SlotLists : IsLiveAtIndexes(SlotList)
SpecLive == InitQuery /\ [][NextLive]_vars

\* createDeadDef on every valid range over the slots 0..AddTop with up to
\* MaxVN values
InitDef ==
  InitFrom(UNION {RangesOver(AddTop, n, 0) : n \in 0..MaxVN}, "once", AddTop)
NextDef == \E Def \in Slots : CreateDeadDef(Def)
SpecDef == InitDef /\ [][NextDef]_vars

\* extendInBlock on every valid range over the slots 0..AddTop
NextExtend ==
  \E StartIdx \in 0..AddTop, Use \in 0..AddTop : ExtendInBlock(StartIdx, Use)
SpecExtend == InitAdd /\ [][NextExtend]_vars

\* The ranges of RangesOver(top, n, 0) with some of the values that no
\* segment carries flagged unused; the last entry of valnos never is, as
\* markValNoForDeletion pops it.
RangesWithUnused(top, n) ==
  {[x[1] EXCEPT !.vni = [k \in 1..n |->
                           [x[1].vni[k] EXCEPT !.unused = (k \in x[2])]]]
   : x \in {y \in RangesOver(top, n, 0) \X SUBSET (1..(n - 1)) :
              y[2] \cap SegVNs(y[1].segments) = {}}}

\* removeSegment and removeValNo on every valid range over the slots
\* 0..QueryTop with up to MaxVN values
InitRemove ==
  InitFrom(UNION {RangesWithUnused(QueryTop, n) : n \in 0..MaxVN},
           "once", QueryTop)
NextRemove ==
  \/ \E Start \in 0..QueryTop, End \in 0..QueryTop, f \in BOOLEAN :
       RemoveSegment(Start, End, f)
  \/ \E v \in TableVNs(LR) : RemoveValNo(v)
SpecRemove == InitRemove /\ [][NextRemove]_vars

\* markValNoForDeletion of a dead value on every valid range over the
\* slots 0..QueryTop with up to MaxVN values
NextMark == \E v \in TableVNs(LR) : MarkValNoForDeletion(v)
SpecMark == InitRemove /\ [][NextMark]_vars

\* MergeValueNumberInto on every valid range over the slots 0..QueryTop
\* with up to MaxVN + 1 values, and every pair of its live values
InitMerge ==
  InitFrom(UNION {RangesWithUnused(QueryTop, n) : n \in 0..(MaxVN + 1)},
           "once", QueryTop)
NextMerge ==
  \E v \in LiveVNs(LR), w \in LiveVNs(LR) : MergeValueNumberIntoCall(v, w)
SpecMerge == InitMerge /\ [][NextMerge]_vars

\* MergeSegmentsInAsValue on every valid range over the slots
\* 0..MergeInTop, with every valid range RHS over these slots of up to
\* MaxOtherVN + 1 values and every live value of this range
MergeInTop == MaxSlot - 4
InitMergeIn == InitFrom(RangesOver(MergeInTop, MaxVN, 0), "once", MergeInTop)
NextMergeIn ==
  \E RHS \in RangesOver(MergeInTop, MaxOtherVN + 1, MaxVN) :
    \E v \in LiveVNs(LR) : MergeSegmentsInAsValueCall(RHS, v)
SpecMergeIn == InitMergeIn /\ [][NextMergeIn]_vars

\* RenumberValues, once and twice, on every valid range over the slots
\* 0..QueryTop with up to MaxVN + 1 values
NextRenumber == RenumberValuesCall \/ RenumberValuesAgain
SpecRenumber == InitMerge /\ [][NextRenumber]_vars

\* One updater session with two flushes at its end, on every valid range
\* over the slots 0..MergeInTop
InitFlush == InitFrom(RangesOver(MergeInTop, MaxVN, 0), "upd", MergeInTop)
NextFlush ==
  \/ \E S \in SegmentsOver(0..MergeInTop, LiveVNs(LR)) : UpdaterAdd(S)
  \/ UpdaterFlush
  \/ UpdaterFlushAgain
SpecFlush == InitFlush /\ [][NextFlush]_vars

\* append on every valid range over the slots 0..QueryTop, with every
\* segment over the slots 0..AddTop
NextAppend == \E S \in SegmentsOver(0..AddTop, LiveVNs(LR)) : AppendCall(S)
SpecAppend == InitQuery /\ [][NextAppend]_vars

\* Classify on every valid range over the slots 0..ClassTop - 1, the first
\* block and the first slot of the second, with up to MaxVN + 1 values of
\* which some may be unused, a value being a PHI def iff it is defined at
\* the block slot; under every control-flow graph of these blocks in which
\* the first block, the entry, has no predecessor
ClassTop == SlotsPerInstr + 1
Blocks == 0..((ClassTop - 1) \div SlotsPerInstr)
CFGs == {P \in [Blocks -> SUBSET Blocks] : P[0] = {}}
WithPHIDefs(r) ==
  [r EXCEPT !.vni = [k \in 1..Len(r.vni) |->
                       [r.vni[k] EXCEPT !.phi = isBlock(r.vni[k].def)]]]
InitClassify ==
  InitFrom({WithPHIDefs(r) :
              r \in UNION {RangesWithUnused(ClassTop, n) : n \in 0..(MaxVN + 1)}},
           "once", ClassTop)
NextClassify == \E Preds \in CFGs : ClassifyCall(Preds)
SpecClassify == InitClassify /\ [][NextClassify]_vars

\* DistributeRange on every valid range over the slots 0..MergeInTop - 1
\* with up to MaxVN values, under every mapping of its values to the
\* classes 0..MaxVN, into MaxVN target ranges that are empty, but for the
\* first, which may hold the segment [0, 1) of a value of its own.
InitDistributeRange ==
  /\ InitLR(UNION {{[r EXCEPT !.vni = Append(@, VNInfo(0, 0))]
                    : r \in RangesWithUnused(MergeInTop, n)}
                   : n \in 0..MaxVN},
            "once", MergeInTop)
  /\ EqClass = <<>>
  /\ SubRanges = <<>>
  /\ \E first \in {Interval(<<>>, <<>>, <<>>),
                   Interval(<<Segment(0, 1, Len(vni))>>, <<Len(vni)>>, <<>>)} :
       LIV = [k \in 1..MaxVN |->
                IF k = 1 THEN first ELSE Interval(<<>>, <<>>, <<>>)]
  /\ segmentSet = <<>>
  /\ Operands = <<>>
NextDistributeRange ==
  \E C \in [1..Len(valnos) -> 0..Len(LIV)] : DistributeRangeCall(C)
SpecDistributeRange == InitDistributeRange /\ [][NextDistributeRange]_vars

\* The subranges of lane mask Mask that the main range segs covers, with
\* n values, the handles base + 1..base + n: one for each way of giving
\* the points of segs to the values.  A value without a segment is unused
\* unless it is the last of the table.  No subrange where no point is
\* given.
SubRangesUnder(segs, Mask, n, base) ==
  LET live == {p \in 1..ClassTop : \E k \in 1..Len(segs) : InSeg(segs[k], p - 1)}
  IN {LET s == CellsToSegs([p \in 1..ClassTop |->
                              IF p \in live THEN f[p] ELSE 0], 1, base)
      IN IF s = <<>> THEN <<>>
         ELSE <<[LaneMask |-> Mask,
                 segments |-> s,
                 valnos |-> [k \in 1..n |-> base + k],
                 vni |-> [k \in 1..n |->
                            [VNInfo(k - 1, FirstStart(s, base + k))
                               EXCEPT !.unused =
                                 k < n /\ base + k \notin SegVNs(s)]]]>>
      : f \in [live -> 0..n]}

\* Classify and then Distribute on every interval whose main range, of
\* MaxVN values, lies in the last two slots of the first block and the
\* first slot of the second, with up to two subranges of disjoint lane
\* masks that the main range covers, the first of two values and the
\* second of one; under every control-flow graph of the two blocks in which
\* the first block is the entry.
DistTop == SlotsPerInstr \div 2
InitDistribute ==
  \E r \in {WithPHIDefs(x) : x \in RangesOver(ClassTop, MaxVN, 0)} :
    /\ \A k \in 1..Len(r.segments) : r.segments[k].start >= DistTop
    /\ \E s1 \in SubRangesUnder(r.segments, {0}, 2, MaxVN),
          s2 \in SubRangesUnder(r.segments, {1}, 1, MaxVN + 2) :
         /\ InitLR({[r EXCEPT !.vni =
                       @ \o (IF s1 = <<>> THEN <<VNInfo(0, 0), VNInfo(1, 0)>>
                             ELSE s1[1].vni)
                         \o (IF s2 = <<>> THEN <<>> ELSE s2[1].vni)]},
                   "once", ClassTop)
         /\ SubRanges = [k \in 1..Len(s1 \o s2) |->
                           [LaneMask |-> (s1 \o s2)[k].LaneMask,
                            segments |-> (s1 \o s2)[k].segments,
                            valnos |-> (s1 \o s2)[k].valnos]]
    /\ EqClass = <<>>
    /\ LIV = <<>>
    /\ segmentSet = <<>>
    /\ Operands = <<>>
NextDistribute ==
  \/ \E Preds \in CFGs : ClassifyCall(Preds)
  \/ DistributeCall
SpecDistribute == InitDistribute /\ [][NextDistribute]_vars

\* removeEmptySubRanges on every list of up to MaxVN + 4 subranges, each
\* empty or of one segment of its value, under a main range that covers
\* them; the lane mask of a subrange is its place in the list.
MaxSubRanges == MaxVN + 4
SubRangeLists ==
  UNION {[1..n -> {<<>>, <<Segment(0, 1, 2)>>, <<Segment(1, 2, 2)>>}]
         : n \in 0..MaxSubRanges}
InitRemoveEmpty ==
  /\ InitLR({[segments |-> <<Segment(0, 2, 1)>>, valnos |-> <<1>>,
              vni |-> <<VNInfo(0, 0), VNInfo(0, 0)>>]}, "once", QueryTop)
  /\ \E L \in SubRangeLists :
       SubRanges = [k \in 1..Len(L) |->
                      [LaneMask |-> {k}, segments |-> L[k], valnos |-> <<2>>]]
  /\ EqClass = <<>>
  /\ LIV = <<>>
  /\ segmentSet = <<>>
  /\ Operands = <<>>
NextRemoveEmpty == RemoveEmptySubRangesCall
SpecRemoveEmpty == InitRemoveEmpty /\ [][NextRemoveEmpty]_vars

\* Construction on a LiveRange with a segment set: from the empty set,
\* every sequence of up to MaxCalls calls, each
\* also made on the vector-backed range in expect.
InitSet ==
  /\ segments = <<>>
  /\ valnos = <<>>
  /\ vni = <<>>
  /\ segmentSet = << <<>> >>
  /\ Operands = <<>>
  /\ expect = Twin(<<>>, <<>>, <<>>, nullptr, "none")
  /\ LastStart = InvalidSlot
  /\ WriteI = InvalidIt
  /\ ReadI = InvalidIt
  /\ Spills = <<>>
  /\ err = "none"
  /\ mode = "set"
  /\ op = [name |-> "init"]
  /\ pre = <<>>
  /\ calls = 0
  /\ EqClass = <<>>
  /\ SubRanges = <<>>
  /\ LIV = <<>>
NextSet ==
  \/ \E Def \in Slots : LRCreateDeadDef(Def)
  \/ \E StartIdx, Use \in 0..SetTop : LRExtendInBlock(StartIdx, Use)
  \/ \E S \in SegmentsOver(0..SetTop, TableVNs(LR)) : LRAddSegment(S)
  \/ \E Seg \in SegmentsOver(0..SetTop, TableVNs(LR)) : UpdaterAddToSet(Seg)
  \/ FlushSegmentSetCall
SpecSet == InitSet /\ [][NextSet]_vars

\* The same with LiveRange::append among the calls.
NextSetAppend ==
  \/ NextSet
  \/ \E S \in SegmentsOver(0..SetTop, TableVNs(LR)) : LRAppend(S)
SpecSetAppend == InitSet /\ [][NextSetAppend]_vars

\* renameComponents up to the end of rewriteOperands, on every interval
\* whose main range has a value in the first block and one in the second,
\* with up to two subranges of disjoint lane masks that the main range
\* covers, the first of two values and the second of one; with one operand
\* of the register, of every kind, instruction and lane mask; under every
\* control-flow graph of the two blocks in which the first is the entry.
OperandKinds ==
  {[isDef |-> FALSE, isEarlyClobber |-> FALSE, readsReg |-> TRUE],
   [isDef |-> FALSE, isEarlyClobber |-> FALSE, readsReg |-> FALSE],
   [isDef |-> TRUE, isEarlyClobber |-> FALSE, readsReg |-> FALSE],
   [isDef |-> TRUE, isEarlyClobber |-> TRUE, readsReg |-> FALSE]}
OperandsOver(Is, Masks) ==
  {[Instr |-> i, isDef |-> k.isDef, isEarlyClobber |-> k.isEarlyClobber,
    readsReg |-> k.readsReg, LaneMask |-> M, reg |-> 1]
   : i \in Is, k \in OperandKinds, M \in Masks}
InitRewrite ==
  \E r \in {x \in RangesOver(ClassTop, MaxVN, 0) :
              x.segments = <<Segment(DistTop, SlotsPerInstr, 1),
                             Segment(SlotsPerInstr, ClassTop, 2)>>} :
    /\ \E s1 \in SubRangesUnder(r.segments, {0}, 2, MaxVN),
          s2 \in SubRangesUnder(r.segments, {1}, 1, MaxVN + 2) :
         /\ InitLR({WithPHIDefs(
                      [r EXCEPT !.vni =
                         @ \o (IF s1 = <<>> THEN <<VNInfo(0, 0), VNInfo(1, 0)>>
                               ELSE s1[1].vni)
                           \o (IF s2 = <<>> THEN <<>> ELSE s2[1].vni)])},
                   "once", ClassTop)
         /\ SubRanges = [k \in 1..Len(s1 \o s2) |->
                           [LaneMask |-> (s1 \o s2)[k].LaneMask,
                            segments |-> (s1 \o s2)[k].segments,
                            valnos |-> (s1 \o s2)[k].valnos]]
    /\ EqClass = <<>>
    /\ LIV = <<>>
    /\ segmentSet = <<>>
    /\ \E MO \in OperandsOver(Blocks, {{0}, {1}, {0, 1}}) : Operands = <<MO>>
NextRewrite ==
  \/ \E Preds \in CFGs : FindComponentsCall(Preds)
  \/ \E wild \in {-1, 0} : RewriteOperandsCall(wild)
SpecRewrite == InitRewrite /\ [][NextRewrite]_vars

\* join on every pair of valid ranges over the slots 0..JoinTop, with
\* every NewVNInfo array of up to MaxVN + MaxOtherVN entries and every
\* assignment into it
InitJoin == InitFrom(RangesOver(JoinTop, MaxVN, 0), "once", JoinTop)
NextJoinArgs ==
  /\ Ready /\ mode = "once"
  /\ \E Other \in RangesOver(JoinTop, MaxOtherVN, Len(vni)) :
     \E m \in 1..(MaxVN + MaxOtherVN) :
     \E New \in NewVNInfos(TableVNs(LR) \cup TableVNs(Other), m) :
     \E LHS \in SeqsOf(0..(m - 1), Len(valnos)) :
     \E RHS \in SeqsOf(0..(m - 1), Len(Other.valnos)) :
        Join(Other, LHS, RHS, New)
SpecJoin == InitJoin /\ [][NextJoinArgs]_vars

\* One updater session on every valid range over the slots 0..UpdTop
InitUpd == InitFrom(RangesOver(UpdTop, MaxVN, 0), "upd", UpdTop)
NextUpd ==
  \/ \E S \in SegmentsOver(0..UpdTop, LiveVNs(LR)) : UpdaterAdd(S)
  \/ UpdaterFlush
SpecUpd == InitUpd /\ [][NextUpd]_vars

----------------------------------------------------------------------------
\* Properties

\* The range is at rest: no assertion has fired and no updater is dirty.
AtRest == err = "none" /\ ~isValid(LastStart)

\* C1: after any sequence of calls from the empty range in which no
\* assertion fires, every segment has start < end and every segment ends
\* at or before the start of the next one.
C1_OrderedNonOverlapping ==
  AtRest =>
    \A i \in 1..Len(segments) :
      /\ segments[i].start < segments[i].end
      /\ (i < Len(segments) => segments[i].end <= segments[i + 1].start)

\* C2: after any sequence of calls from the empty range in which no
\* assertion fires, two segments that touch carry different value numbers.
C2_TouchingDiffer ==
  AtRest =>
    \A i \in 1..(Len(segments) - 1) :
      segments[i].end = segments[i + 1].start =>
        segments[i].valno # segments[i + 1].valno

\* C3: after any sequence of createDeadDef, addSegment, removeSegment,
\* removeValNo, markValNoForDeletion, MergeValueNumberInto and
\* RenumberValues calls in which no assertion fires, the id of every
\* segment's value number indexes the table valnos, and the table entry at
\* that id is the segment's value number.
C3_TableConsistent ==
  err = "none" =>
    \A i \in 1..Len(segments) :
      /\ vni[segments[i].valno].id < Len(valnos)
      /\ valnos[vni[segments[i].valno].id + 1] = segments[i].valno

\* A value number was flagged unused in place, or the table was cut, while
\* segments of other value numbers remain.
C3_Witness ==
  /\ err = "none"
  /\ segments # <<>>
  /\ \/ \E k \in 1..Len(valnos) : vni[valnos[k]].unused
     \/ Len(valnos) < Len(vni)

\* Seg shares a point with a segment of segs of another value number.
DiffOverlap(segs, Seg) ==
  \E k \in 1..Len(segs) :
    /\ segs[k].valno # Seg.valno
    /\ segs[k].start < Seg.end
    /\ Seg.start < segs[k].end

\* The point map cells with the points of Seg set to its value number.
MapWith(cells, Seg) ==
  [p \in 1..Len(cells) |-> IF InSeg(Seg, p - 1) THEN Seg.valno ELSE cells[p]]

\* C4: addSegment on a valid range either fails with the assertion
\* "Cannot overlap two segments with differing ValID's" (or "Cannot merge
\* with differing values") or leaves a range that verify() accepts.
C4_AddSegmentFailsOrValid ==
  (mode = "once" /\ op.name = "addSegment") =>
    \/ err = "OverlapMismatch"
    \/ err = "none" /\ verify(segments, valnos, vni)

\* C5: when the added segment overlaps no segment of another value number,
\* addSegment leaves the valid range whose points are the old points and
\* those of the segment, the segment's points carrying its value number
\* and every other point its old one; a valid range has touching and
\* overlapping segments of one value number merged.
C5_AddSegmentResult ==
  (/\ mode = "once"
   /\ op.name = "addSegment"
   /\ ~DiffOverlap(pre.segments, op.S)) =>
    /\ err = "none"
    /\ segments = SegsOfMap(MapWith(PointMap(pre.segments, AddTop), op.S))

\* The added segment joined two segments of its value number into one.
C5_Witness ==
  /\ mode = "once"
  /\ op.name = "addSegment"
  /\ ~DiffOverlap(pre.segments, op.S)
  /\ err = "none"
  /\ Len(segments) < Len(pre.segments)

\* C6: a sequence of updater adds in any order of start positions, none
\* overlapping a point of another value number, fires no assertion, and
\* after flush the range is the valid range whose point map is the
\* original map with the points of every added segment set to its value
\* number.
C6_UpdaterResult ==
  mode = "upd" =>
    /\ err = "none"
    /\ (op.name = "flush" =>
          /\ verify(segments, valnos, vni)
          /\ segments = SegsOfMap(expect))

\* A session in which an add started before the previous one, and whose
\* adds filled a hole between two segments.
C6_Witness ==
  /\ mode = "upd"
  /\ op.name = "flush"
  /\ op.reset
  /\ err = "none"
  /\ Len(segments) = 1
  /\ segments[1].end - segments[1].start = UpdTop

\* The value number join gives to the point of cell p: that of this range
\* mapped through LHSValNoAssignments where this range is live, else that
\* of Other mapped through RHSValNoAssignments, 0 where neither is live.
JoinedVN(p) ==
  LET a == PointMap(pre.segments, JoinTop)[p]
      b == PointMap(op.Other.segments, JoinTop)[p]
  IN IF a # 0 THEN op.New[op.LHS[op.arena[a].id + 1] + 1]
     ELSE IF b # 0 THEN op.New[op.RHS[op.arena[b].id + 1] + 1]
     ELSE 0

\* Every point live in both ranges is mapped to the same new value number.
JoinAgrees ==
  \A p \in 1..JoinTop :
    LET a == PointMap(pre.segments, JoinTop)[p]
        b == PointMap(op.Other.segments, JoinTop)[p]
    IN (a # 0 /\ b # 0) =>
         op.New[op.LHS[op.arena[a].id + 1] + 1] =
           op.New[op.RHS[op.arena[b].id + 1] + 1]

\* C7: when every point live in both ranges maps to the same new value
\* number, join fires no assertion and leaves the valid range (touching
\* segments of one value number merged) whose points are those of the two
\* ranges, each carrying the new value number assigned to its old one.
C7_JoinSemantics ==
  (mode = "once" /\ op.name = "join" /\ JoinAgrees) =>
    /\ err = "none"
    /\ segments = SegsOfMap([p \in 1..JoinTop |-> JoinedVN(p)])

\* A join that merged touching segments of this range mapped to one new
\* value number, and took points from Other.
C7_Witness ==
  /\ mode = "once"
  /\ op.name = "join"
  /\ JoinAgrees
  /\ err = "none"
  /\ op.Other.segments # <<>>
  /\ Len(pre.segments) > 1
  /\ Len(segments) = 1

\* The entries of New that are not null, in order.
RECURSIVE NonNull(_)
NonNull(New) ==
  IF New = <<>> THEN <<>>
  ELSE IF Head(New) = nullptr THEN NonNull(Tail(New))
  ELSE <<Head(New)>> \o NonNull(Tail(New))

\* C8: after join, valnos is the sequence of the entries of NewVNInfo that
\* are not null, in order, and entry i has id i.
C8_ValnosRebuilt ==
  (mode = "once" /\ op.name = "join" /\ err = "none") =>
    /\ valnos = NonNull(op.New)
    /\ \A i \in 1..Len(valnos) : vni[valnos[i]].id = i - 1

\* C9: find(Pos) on a valid range returns the first segment whose end is
\* after Pos, and end() when there is none.
C9_FindFirst ==
  (mode = "once" /\ op.name = "find") =>
    /\ err = "none"
    /\ (op.ret # Len(segments) + 1 =>
          /\ op.ret \in 1..Len(segments)
          /\ op.Pos < segments[op.ret].end)
    /\ \A k \in 1..Len(segments) :
          op.Pos < segments[k].end => op.ret <= k

\* find returned a segment that is not the first one and that starts after
\* Pos.
C9_Witness ==
  /\ mode = "once"
  /\ op.name = "find"
  /\ op.ret \in 2..Len(segments)
  /\ op.Pos < segments[op.ret].start

\* C10: overlapsFrom(Other, Other.begin()) on two valid ranges that are
\* not empty returns true iff some point lies in a segment of each; ranges
\* that only touch share no point.
C10_OverlapsIffShared ==
  (mode = "once" /\ op.name = "overlapsFrom") =>
    /\ err = "none"
    /\ op.ret = (\E i \in 1..Len(segments), j \in 1..Len(op.Other) :
                   /\ segments[i].start < op.Other[j].end
                   /\ op.Other[j].start < segments[i].end)

\* The two ranges touch and share no point, and the answer is false.
C10_Witness ==
  /\ mode = "once"
  /\ op.name = "overlapsFrom"
  /\ ~op.ret
  /\ \E i \in 1..Len(segments), j \in 1..Len(op.Other) :
       segments[i].end = op.Other[j].start

\* Some point lies in a segment of each of the two vectors.
SharePoint(X, Y) ==
  \E i \in 1..Len(X), j \in 1..Len(Y) :
    X[i].start < Y[j].end /\ Y[j].start < X[i].end

\* C11: overlaps(Other, CP, Indexes) on a range that is not empty fires no
\* assertion and returns true iff a segment of this range and a segment of
\* Other share a point and the later of their two starts is a block slot
\* or lies at an instruction that is not coalescable; it returns false
\* when Other is empty.
C11_OverlapsCP ==
  (mode = "once" /\ op.name = "overlapsCP") =>
    /\ err = "none"
    /\ op.ret = (\E i \in 1..Len(segments), j \in 1..Len(op.Other) :
                   /\ segments[i].start < op.Other[j].end
                   /\ op.Other[j].start < segments[i].end
                   /\ LET Def == Max(segments[i].start, op.Other[j].start)
                      IN isBlock(Def) \/ ~isCoalescable(op.Coal, Def))

\* C12: covers(Other) on two valid ranges returns true iff every point of
\* a segment of Other lies in a segment of this range.
C12_CoversIffSubset ==
  (mode = "once" /\ op.name = "covers") =>
    op.ret = (\A p \in 1..QueryTop :
                PointMap(op.Other, QueryTop)[p] # 0 =>
                  PointMap(segments, QueryTop)[p] # 0)

\* covers answered true for a segment of Other that no single segment of
\* this range contains: it is covered by a chain of touching segments.
C12_Witness ==
  /\ mode = "once"
  /\ op.name = "covers"
  /\ op.ret
  /\ \E j \in 1..Len(op.Other) : \A i \in 1..Len(segments) :
       ~(/\ segments[i].start <= op.Other[j].start
         /\ op.Other[j].end <= segments[i].end)

\* Some slot of the list lies inside a segment.
AnyLive(segs, SlotList) ==
  \E k \in 1..Len(SlotList) : \E i \in 1..Len(segs) :
    contains(segs[i], SlotList[k])

\* The list of slots is in ascending order (equal slots allowed).
Ascending(SlotList) ==
  \A k \in 1..(Len(SlotList) - 1) : SlotList[k] <= SlotList[k + 1]

\* C13 as stated: isLiveAtIndexes returns true iff some slot of the list
\* lies inside a segment, in whatever order the slots are given.
C13_LiveAnyOrder ==
  (mode = "once" /\ op.name = "isLiveAtIndexes") =>
    op.ret = AnyLive(segments, op.Slots)

\* C13: for a list of slots in ascending order, isLiveAtIndexes returns
\* true iff some slot of the list lies inside a segment; for any list, a
\* true answer means that some slot of the list lies inside a segment.
C13_LiveAscending ==
  (mode = "once" /\ op.name = "isLiveAtIndexes") =>
    /\ op.ret => AnyLive(segments, op.Slots)
    /\ Ascending(op.Slots) => op.ret = AnyLive(segments, op.Slots)

\* An ascending list whose first slot lies in a hole in front of the
\* segment that contains its second slot.
C13_Witness ==
  /\ mode = "once"
  /\ op.name = "isLiveAtIndexes"
  /\ Len(op.Slots) = 2
  /\ op.Slots[1] < op.Slots[2]
  /\ op.ret
  /\ ~AnyLive(segments, <<op.Slots[1]>>)
  /\ \E i \in 1..Len(segments) :
       /\ op.Slots[1] < segments[i].start
       /\ contains(segments[i], op.Slots[2])

\* The first segment of segs that ends after p; 0 when there is none.
FirstAfter(segs, p) ==
  IF \E k \in 1..Len(segs) : segs[k].end > p
  THEN CHOOSE k \in 1..Len(segs) :
         /\ segs[k].end > p
         /\ \A j \in 1..(k - 1) : segs[j].end <= p
  ELSE 0

\* The number of segments of segs that start before p.
StartingBefore(segs, p) ==
  Cardinality({k \in 1..Len(segs) : segs[k].start < p})

\* C14: createDeadDef(Def) with Def not a dead slot, not inside a segment
\* and not on the instruction of the start of the first segment ending
\* after Def fires no assertion, returns a new VNInfo with def Def and id
\* the old size of valnos, appended to valnos, inserts the segment
\* [Def, Def.getDeadSlot()) of it behind the segments that start before
\* Def, changes nothing else, and the range stays valid.
C14_DeadDefNew ==
  (/\ mode = "once"
   /\ op.name = "createDeadDef"
   /\ ~isDead(op.Def)
   /\ \A k \in 1..Len(pre.segments) : ~contains(pre.segments[k], op.Def)
   /\ (FirstAfter(pre.segments, op.Def) # 0 =>
         ~isSameInstr(op.Def,
                      pre.segments[FirstAfter(pre.segments, op.Def)].start))) =>
    /\ err = "none"
    /\ op.ret = Len(pre.vni) + 1
    /\ vni = Append(pre.vni, VNInfo(Len(pre.valnos), op.Def))
    /\ valnos = Append(pre.valnos, op.ret)
    /\ segments = Insert(pre.segments,
                         StartingBefore(pre.segments, op.Def) + 1,
                         Segment(op.Def, getDeadSlot(op.Def), op.ret))
    /\ verify(segments, valnos, vni)

\* The dead def was inserted between two segments.
C14_Witness ==
  /\ mode = "once"
  /\ op.name = "createDeadDef"
  /\ err = "none"
  /\ Len(segments) = Len(pre.segments) + 1
  /\ \E k \in 2..(Len(segments) - 1) : segments[k].valno = op.ret

\* C15: createDeadDef(Def), Def not a dead slot, when the first segment S
\* ending after Def starts on the instruction of Def and S.valno->def is
\* S.start: no assertion fires, no VNInfo is allocated, S.valno is
\* returned, the start of S and the def of its value become the smaller
\* of Def and the old start, nothing else changes, and nothing at all
\* changes when Def is not before the old start.
C15_DeadDefPromote ==
  (/\ mode = "once"
   /\ op.name = "createDeadDef"
   /\ ~isDead(op.Def)
   /\ FirstAfter(pre.segments, op.Def) # 0
   /\ LET S == pre.segments[FirstAfter(pre.segments, op.Def)]
      IN isSameInstr(op.Def, S.start) /\ pre.vni[S.valno].def = S.start) =>
    LET I == FirstAfter(pre.segments, op.Def)
        S == pre.segments[I]
    IN /\ err = "none"
       /\ op.ret = S.valno
       /\ valnos = pre.valnos
       /\ segments = [pre.segments EXCEPT ![I].start = Min(op.Def, S.start)]
       /\ vni = [pre.vni EXCEPT ![S.valno].def = Min(op.Def, S.start)]
       /\ (op.Def >= S.start => LR = pre)

\* A def on the early-clobber slot moved the start of a segment and the
\* def of its value back.
C15_Witness ==
  /\ mode = "once"
  /\ op.name = "createDeadDef"
  /\ err = "none"
  /\ Len(vni) = Len(pre.vni)
  /\ \E k \in 1..Len(segments) :
       /\ segments[k].start = op.Def
       /\ pre.segments[k].start > op.Def
       /\ vni[segments[k].valno].def = op.Def

\* The last segment of segs that starts before p; 0 when there is none.
LastBefore(segs, p) ==
  IF \E k \in 1..Len(segs) : segs[k].start < p
  THEN CHOOSE k \in 1..Len(segs) :
         /\ segs[k].start < p
         /\ \A j \in (k + 1)..Len(segs) : segs[j].start >= p
  ELSE 0

\* C16: extendInBlock(StartIdx, Use), when the last segment S that starts
\* before Use exists and ends after StartIdx, fires no assertion, returns
\* S.valno and leaves the value table alone; S keeps its start and ends at
\* or after Use; the points from the old end of S up to Use carry S.valno
\* and every other point is as before, a following segment of the same
\* value that starts at the new end being merged into S; nothing changes
\* when S already ended at or after Use.
C16_ExtendInBlock ==
  (/\ mode = "once"
   /\ op.name = "extendInBlock"
   /\ LastBefore(pre.segments, op.Use) # 0
   /\ pre.segments[LastBefore(pre.segments, op.Use)].end > op.StartIdx) =>
    LET k == LastBefore(pre.segments, op.Use)
        S == pre.segments[k]
    IN /\ err = "none"
       /\ op.ret = S.valno
       /\ valnos = pre.valnos /\ vni = pre.vni
       /\ segments[k].start = S.start
       /\ segments[k].valno = S.valno
       /\ segments[k].end >= op.Use
       /\ (S.end >= op.Use => segments = pre.segments)
       /\ segments = SegsOfMap(MapWith(PointMap(pre.segments, AddTop),
                                       Segment(S.end, op.Use, S.valno)))

\* The extended segment reached a segment of its value and the two were
\* merged.
C16_Witness ==
  /\ mode = "once"
  /\ op.name = "extendInBlock"
  /\ err = "none"
  /\ op.ret # nullptr
  /\ Len(segments) < Len(pre.segments)

\* C17: extendInBlock(StartIdx, Use) returns nullptr and changes neither
\* the segments nor the value table when the range is empty, when no
\* segment starts before Use, or when the last segment starting before Use
\* ends at or before StartIdx.
C17_ExtendInBlockNone ==
  (/\ mode = "once"
   /\ op.name = "extendInBlock"
   /\ \/ pre.segments = <<>>
      \/ LastBefore(pre.segments, op.Use) = 0
      \/ pre.segments[LastBefore(pre.segments, op.Use)].end <= op.StartIdx) =>
    /\ err = "none"
    /\ op.ret = nullptr
    /\ LR = pre

\* The last segment starting before Use ends exactly at StartIdx, and a
\* gap lies between it and Use.
C17_Witness ==
  /\ mode = "once"
  /\ op.name = "extendInBlock"
  /\ op.ret = nullptr
  /\ LastBefore(pre.segments, op.Use) # 0
  /\ pre.segments[LastBefore(pre.segments, op.Use)].end = op.StartIdx
  /\ op.StartIdx < op.Use

\* Some segment of segs contains the span [Start, End).
InOneSegment(segs, Start, End) ==
  \E k \in 1..Len(segs) : segs[k].start <= Start /\ End <= segs[k].end

\* C18: removeSegment(Start, End, _) with Start < End, when one segment
\* contains [Start, End), fires no assertion and leaves the range whose
\* points are the old ones without those of [Start, End), each with its
\* old value number (the segment trimmed at its start or at its end, split
\* in two, or erased); when no segment contains [Start, End) an assertion
\* fires.
C18_RemoveSegment ==
  (mode = "once" /\ op.name = "removeSegment" /\ op.Start < op.End) =>
    IF InOneSegment(pre.segments, op.Start, op.End)
    THEN /\ err = "none"
         /\ segments = SegsOfMap(MapWith(PointMap(pre.segments, QueryTop),
                                         Segment(op.Start, op.End, 0)))
    ELSE err = "NotInRange"

\* The span was cut out of the middle of a segment.
C18_Witness ==
  /\ mode = "once"
  /\ op.name = "removeSegment"
  /\ err = "none"
  /\ Len(segments) = Len(pre.segments) + 1

\* The value number v of the range before the call is marked for deletion:
\* popped from valnos, with the flagged entries in front of it, if it was
\* the last entry, flagged unused in place otherwise.
MarkedForDeletion(v) ==
  IF pre.vni[v].id = Len(pre.valnos) - 1
  THEN /\ vni = pre.vni
       /\ Len(valnos) < Len(pre.valnos)
       /\ valnos = SubSeq(pre.valnos, 1, Len(valnos))
       /\ (valnos # <<>> => ~vni[valnos[Len(valnos)]].unused)
       /\ \A k \in (Len(valnos) + 1)..(Len(pre.valnos) - 1) :
            pre.vni[pre.valnos[k]].unused
  ELSE /\ valnos = pre.valnos
       /\ vni = [pre.vni EXCEPT ![v].unused = TRUE]

\* C19: removeSegment marks the value number of the segment S it cut for
\* deletion exactly when the whole of S was removed, RemoveDeadValNo is
\* set and no other segment has the value; in every other case valnos and
\* the VNInfos are unchanged.
C19_RemoveSegmentMarks ==
  (mode = "once" /\ op.name = "removeSegment" /\ err = "none") =>
    LET k == FirstAfter(pre.segments, op.Start)
        S == pre.segments[k]
    IN IF /\ S.start = op.Start /\ S.end = op.End
          /\ op.RemoveDeadValNo
          /\ \A j \in 1..Len(pre.segments) :
               j # k => pre.segments[j].valno # S.valno
       THEN MarkedForDeletion(S.valno)
       ELSE valnos = pre.valnos /\ vni = pre.vni

\* The last value of the table was popped together with a flagged entry
\* in front of it.
C19_Witness ==
  /\ mode = "once"
  /\ op.name = "removeSegment"
  /\ err = "none"
  /\ op.RemoveDeadValNo
  /\ Len(valnos) + 2 <= Len(pre.valnos)

\* C20: removeValNo(ValNo) on any range, one without segments included:
\* afterwards no segment has ValNo, the segments of the other values are
\* the old ones in the old order, and ValNo is marked for deletion.
C20_RemoveValNo ==
  (mode = "once" /\ op.name = "removeValNo") =>
    LET Other(S) == S.valno # op.ValNo
    IN /\ err = "none"
       /\ segments = SelectSeq(pre.segments, Other)
       /\ MarkedForDeletion(op.ValNo)

\* C21: markValNoForDeletion(ValNo): if ValNo->id is the last index of
\* valnos, ValNo is popped with every flagged entry directly in front of
\* it, so that valnos is empty or ends with a value that is not unused;
\* otherwise valnos keeps its length and ValNo is flagged unused; the
\* entries that remain keep their positions and ids, and the segments are
\* untouched.
C21_MarkValNoForDeletion ==
  (mode = "once" /\ op.name = "markValNoForDeletion") =>
    /\ err = "none"
    /\ segments = pre.segments
    /\ \A k \in 1..Len(valnos) :
         valnos[k] = pre.valnos[k] /\ vni[valnos[k]].id = k - 1
    /\ \A v \in 1..Len(vni) : vni[v].id = pre.vni[v].id
    /\ IF pre.vni[op.ValNo].id = Len(pre.valnos) - 1
       THEN /\ Len(valnos) < Len(pre.valnos)
            /\ (valnos = <<>> \/ ~vni[valnos[Len(valnos)]].unused)
            /\ \A k \in (Len(valnos) + 1)..(Len(pre.valnos) - 1) :
                 pre.vni[pre.valnos[k]].unused
            /\ vni = pre.vni
       ELSE /\ Len(valnos) = Len(pre.valnos)
            /\ vni[op.ValNo].unused
            /\ \A v \in 1..Len(vni) :
                 v # op.ValNo => vni[v] = pre.vni[v]

\* The last value was popped with a flagged entry in front of it.
C21_Witness ==
  /\ mode = "once"
  /\ op.name = "markValNoForDeletion"
  /\ pre.vni[op.ValNo].id = Len(pre.valnos) - 1
  /\ Len(valnos) + 2 <= Len(pre.valnos)

\* The value of V1 and V2 with the smaller id before the call, and the
\* other one.
Survivor(V1, V2) == IF pre.vni[V1].id < pre.vni[V2].id THEN V1 ELSE V2
Merged(V1, V2) == IF pre.vni[V1].id < pre.vni[V2].id THEN V2 ELSE V1

\* C22: MergeValueNumberInto(V1, V2), V1 # V2, on a valid range returns
\* the value with the smaller id, which keeps that id and has the def and
\* flags V2 had; no segment has the other value, which is marked for
\* deletion; the live points are the same, those that carried V1 or V2
\* carry the survivor and the others their old value, and touching
\* segments of the survivor are merged.
C22_MergeValueNumberInto ==
  (mode = "once" /\ op.name = "MergeValueNumberInto" /\ op.V1 # op.V2) =>
    LET surv == Survivor(op.V1, op.V2)
        gone == Merged(op.V1, op.V2)
        old == PointMap(pre.segments, QueryTop)
    IN /\ err = "none"
       /\ op.ret = surv
       /\ vni[surv].id = Min(pre.vni[op.V1].id, pre.vni[op.V2].id)
       /\ vni[surv] = [pre.vni[op.V2] EXCEPT !.id = pre.vni[surv].id]
       /\ gone \notin SegVNs(segments)
       /\ segments = SegsOfMap([p \in 1..QueryTop |->
                                  IF old[p] \in {op.V1, op.V2} THEN surv
                                  ELSE old[p]])
       /\ verify(segments, valnos, vni)
       /\ IF pre.vni[gone].id = Len(pre.valnos) - 1
          THEN /\ Len(valnos) < Len(pre.valnos)
               /\ valnos = SubSeq(pre.valnos, 1, Len(valnos))
               /\ ~vni[valnos[Len(valnos)]].unused
          ELSE /\ valnos = pre.valnos
               /\ vni[gone].unused

\* V1 had the smaller id and took over the def of V2; a segment of V1
\* between two touching segments of V2 became one segment with them.
C22_Witness ==
  /\ mode = "once"
  /\ op.name = "MergeValueNumberInto"
  /\ err = "none"
  /\ pre.vni[op.V1].id < pre.vni[op.V2].id
  /\ pre.vni[op.V1].def # pre.vni[op.V2].def
  /\ Len(segments) + 2 = Len(pre.segments)

\* The point map cells with the points of the segments of RHS set to v.
MapWithAll(cells, RHS, v) ==
  [p \in 1..Len(cells) |->
     IF \E k \in 1..Len(RHS) : InSeg(RHS[k], p - 1) THEN v ELSE cells[p]]

\* Some point of a segment of RHS carries a value number other than v.
OverlapsOtherValue(cells, RHS, v) ==
  \E p \in 1..Len(cells) :
    /\ \E k \in 1..Len(RHS) : InSeg(RHS[k], p - 1)
    /\ cells[p] \notin {0, v}

\* C23 as stated: MergeSegmentsInAsValue(RHS, LHSValNo) never fails,
\* whatever value the segments it overlaps carry; afterwards every point
\* of RHS carries LHSValNo and every other point its old value number.
C23_OverwriteAnyValue ==
  (mode = "once" /\ op.name = "MergeSegmentsInAsValue") =>
    /\ err = "none"
    /\ segments = SegsOfMap(MapWithAll(PointMap(pre.segments, MergeInTop),
                                       op.RHS, op.LHSValNo))

\* C23: when no point of RHS carries a value number other than LHSValNo in
\* this range, MergeSegmentsInAsValue(RHS, LHSValNo) fires no assertion
\* and leaves the valid range in which every point of RHS carries LHSValNo
\* and every other point its old value number; when some point of RHS
\* carries another value number nothing is overwritten: an assertion
\* fires.
C23_MergeSameValue ==
  (mode = "once" /\ op.name = "MergeSegmentsInAsValue") =>
    IF OverlapsOtherValue(PointMap(pre.segments, MergeInTop), op.RHS, op.LHSValNo)
    THEN err # "none"
    ELSE /\ err = "none"
         /\ segments = SegsOfMap(MapWithAll(PointMap(pre.segments, MergeInTop),
                                            op.RHS, op.LHSValNo))
         /\ verify(segments, valnos, vni)

\* Two touching segments of RHS reached a segment of LHSValNo, and the
\* three became one.
C23_Witness ==
  /\ mode = "once"
  /\ op.name = "MergeSegmentsInAsValue"
  /\ err = "none"
  /\ Len(op.RHS) >= 2
  /\ pre.segments # <<>>
  /\ Len(segments) = 1
  /\ \E k \in 1..(Len(op.RHS) - 1) : op.RHS[k].end = op.RHS[k + 1].start

\* The index of the first segment of segs with value number v.
FirstIndex(segs, v) ==
  CHOOSE k \in 1..Len(segs) :
    /\ segs[k].valno = v
    /\ \A j \in 1..(k - 1) : segs[j].valno # v

\* C24: RenumberValues on a valid range leaves the segments as they were
\* and a table that holds exactly the value numbers some segment has,
\* each once, in the order of their first segments, with valnos[i]->id = i;
\* values without a segment and unused values are dropped, and no def or
\* flag changes.
C24_RenumberValues ==
  (mode = "once" /\ op.name = "RenumberValues") =>
    /\ err = "none"
    /\ segments = pre.segments
    /\ TableVNs(LR) = SegVNs(segments)
    /\ Len(valnos) = Cardinality(SegVNs(segments))
    /\ \A i \in 1..Len(valnos) : vni[valnos[i]].id = i - 1
    /\ \A i \in 1..Len(valnos) : \A j \in (i + 1)..Len(valnos) :
         FirstIndex(segments, valnos[i]) < FirstIndex(segments, valnos[j])
    /\ \A v \in 1..Len(vni) :
         vni[v] = [pre.vni[v] EXCEPT !.id = vni[v].id]

\* The table lost a flagged value and a value without segments, and a
\* value that stayed changed its id.
C24_Witness ==
  /\ mode = "once"
  /\ op.name = "RenumberValues"
  /\ err = "none"
  /\ Len(valnos) + 2 <= Len(pre.valnos)
  /\ \E k \in 1..Len(pre.valnos) : pre.vni[pre.valnos[k]].unused
  /\ \E v \in TableVNs(LR) : vni[v].id # pre.vni[v].id

\* C25: a second RenumberValues right after the first changes nothing:
\* segments, the order of valnos and every id are as after the first.
C25_RenumberIdempotent ==
  (mode = "once" /\ op.name = "RenumberValuesAgain") =>
    /\ err = "none"
    /\ LR = pre

\* The second call ran on a range of two values that the first call had
\* renumbered.
C25_Witness ==
  /\ mode = "once"
  /\ op.name = "RenumberValuesAgain"
  /\ err = "none"
  /\ Len(valnos) >= 2
  /\ Len(valnos) < Len(vni)

\* C26: after any sequence of updater adds, the first flush leaves the
\* updater clean (LastStart invalid, Spills empty) and a second flush
\* right after it changes neither the segments nor the updater.
C26_FlushIdempotent ==
  /\ (mode = "upd" /\ op.name = "flush" /\ err = "none") =>
       ~isValid(LastStart) /\ Spills = <<>>
  /\ (mode = "upd" /\ op.name = "flushAgain") =>
       /\ err = "none"
       /\ Updater = pre
       /\ ~isValid(LastStart)
       /\ Spills = <<>>

\* The second flush followed a first one that had spills to merge: the
\* adds of the session put two segments in front of the old ones.
C26_Witness ==
  /\ mode = "upd"
  /\ op.name = "flushAgain"
  /\ err = "none"
  /\ calls = MaxAdds
  /\ Len(segments) >= 3
  /\ expect[1] # 0

\* C27: append(S) on an empty range, or on one whose last segment ends at
\* or before S.start, makes S the new last segment and leaves the segments
\* before it as they were; when S.start < last.end it fails with
\* OrderViolation and the range is not modified.
C27_Append ==
  (mode = "once" /\ op.name = "append") =>
    LET old == pre.segments IN
    IF old = <<>> \/ old[Len(old)].end <= op.S.start
    THEN /\ err = "none"
         /\ segments = Append(old, op.S)
         /\ valnos = pre.valnos
         /\ vni = pre.vni
    ELSE /\ err = "OrderViolation"
         /\ LR = pre

\* A segment was appended right where the last segment of the range ends.
C27_Witness ==
  /\ mode = "once"
  /\ op.name = "append"
  /\ err = "none"
  /\ pre.segments # <<>>
  /\ pre.segments[Len(pre.segments)].end = op.S.start
  /\ segments[Len(segments)] = op.S

\* An append that starts inside the last segment was rejected.
C27_WitnessFail ==
  /\ mode = "once"
  /\ op.name = "append"
  /\ err = "OrderViolation"
  /\ op.S.start < pre.segments[Len(pre.segments)].end
  /\ op.S.start > pre.segments[Len(pre.segments)].start

\* The relations of Classify between the values of the table: a used value
\* v that is not a PHI def is linked to the value live just before v.def,
\* a used PHI def to the value live out of each predecessor of its block.
Link(v, w) ==
  /\ w # nullptr
  /\ ~vni[v].unused
  /\ IF isPHIDef(vni[v])
     THEN \E P \in op.Preds[getMBBFromIndex(vni[v].def)] :
            w = getVNInfoBefore(segments, getMBBEndIdx(P))
     ELSE w = getVNInfoBefore(segments, vni[v].def)

\* The links as a set of pairs, and the values connected to those of S by
\* a path of links of L.
Links == {x \in TableVNs(LR) \X TableVNs(LR) : Link(x[1], x[2])}
Grow(L, S) == S \cup {x[2] : x \in {y \in L : y[1] \in S}}
                \cup {x[1] : x \in {y \in L : y[2] \in S}}
RECURSIVE Reach(_, _)
Reach(L, S) == IF Grow(L, S) = S THEN S ELSE Reach(L, Grow(L, S))

\* The sets of connected values among those of V.
Components(L, V) == {Reach(L, {a}) : a \in V}
Connected(P, a, b) == \E C \in P : a \in C /\ b \in C
SameClass(a, b) == EqClass[vni[a].id + 1] = EqClass[vni[b].id + 1]
UnusedVNs == TableVNs(LR) \ LiveVNs(LR)
LastUsed ==
  valnos[CHOOSE k \in 1..Len(valnos) :
           /\ ~vni[valnos[k]].unused
           /\ \A j \in (k + 1)..Len(valnos) : vni[valnos[j]].unused]

\* C28 as stated: on every range, unused values included, two values are
\* in the same class iff a path of links connects them, and Classify
\* returns the number of the sets of connected values.
C28_ClassifyAll ==
  (mode = "once" /\ op.name = "Classify") =>
    LET P == Components(Links, TableVNs(LR)) IN
    /\ \A a \in TableVNs(LR), b \in TableVNs(LR) :
         SameClass(a, b) <=> Connected(P, a, b)
    /\ op.ret = Cardinality(P)

\* C28, amended: two used values are in the same class iff a path of
\* links connects them; the unused values are all in one class, that of
\* the last used value of the table when there is one; Classify returns
\* the number of classes, which are numbered 0..ret - 1.
C28_ClassifyUsed ==
  (mode = "once" /\ op.name = "Classify") =>
    LET P == Components(Links, LiveVNs(LR)) IN
    /\ err = "none"
    /\ LR = pre
    /\ Len(EqClass) = Len(valnos)
    /\ \A a \in LiveVNs(LR), b \in LiveVNs(LR) :
         SameClass(a, b) <=> Connected(P, a, b)
    /\ \A a \in UnusedVNs, b \in UnusedVNs : SameClass(a, b)
    /\ LiveVNs(LR) # {} => \A a \in UnusedVNs : SameClass(a, LastUsed)
    /\ {EqClass[k] : k \in 1..Len(EqClass)} = 0..(op.ret - 1)
    /\ op.ret = Cardinality(P)
                + (IF LiveVNs(LR) = {} /\ UnusedVNs # {} THEN 1 ELSE 0)

\* Classify found two classes among two used values that no path connects
\* and put the unused value between them in the class of the last one.
C28_Witness ==
  /\ mode = "once"
  /\ op.name = "Classify"
  /\ op.ret = 2
  /\ Len(valnos) = 3
  /\ vni[valnos[2]].unused
  /\ SameClass(valnos[2], valnos[3])
  /\ ~SameClass(valnos[1], valnos[3])
  /\ segments # <<>>

\* Classify joined a PHI def to the value live out of a predecessor block,
\* and a value defined by an instruction to the value live before it.
C28_WitnessLinks ==
  /\ mode = "once"
  /\ op.name = "Classify"
  /\ op.ret = 1
  /\ Len(valnos) = 3
  /\ \E v \in LiveVNs(LR) : isPHIDef(vni[v]) /\ vni[v].def # 0
                            /\ \E w \in LiveVNs(LR) : w # v /\ Link(v, w)
  /\ \E v \in LiveVNs(LR) : ~isPHIDef(vni[v])
                            /\ \E w \in LiveVNs(LR) : w # v /\ Link(v, w)

\* The class DistributeRange was given for the value v of the range.
ClassOf(v) == op.VNIClasses[pre.vni[v].id + 1]
SegsOfClass(k) == SelectSeq(pre.segments, LAMBDA S : ClassOf(S.valno) = k)
VNIsOfClass(k) == SelectSeq(pre.valnos, LAMBDA v : ClassOf(v) = k)
DenseIds(vals) == \A i \in 1..Len(vals) : vni[vals[i]].id = i - 1
Holds(segs, vals) ==
  \A i \in 1..Len(segs) : \E j \in 1..Len(vals) : vals[j] = segs[i].valno

\* C29: DistributeRange appends every segment whose value has class k > 0
\* to target k and keeps every class-0 segment, each list in the old order
\* with no segment lost or duplicated; afterwards the ids of every table
\* are dense (valnos[i].id = i) and each value is in the table of exactly
\* the range that holds its segments.  The call fails only when a target
\* has not expired at the start of a segment it is to receive.
C29_DistributeRange ==
  (mode = "once" /\ op.name = "DistributeRange") =>
    IF err = "none"
    THEN /\ segments = SegsOfClass(0)
         /\ valnos = VNIsOfClass(0)
         /\ DenseIds(valnos)
         /\ Holds(segments, valnos)
         /\ \A k \in 1..Len(LIV) :
              /\ LIV[k].segments = op.SplitLRs[k].segments \o SegsOfClass(k)
              /\ LIV[k].valnos = op.SplitLRs[k].valnos \o VNIsOfClass(k)
              /\ DenseIds(LIV[k].valnos)
              /\ Holds(LIV[k].segments, LIV[k].valnos)
              /\ LIV[k].SubRanges = op.SplitLRs[k].SubRanges
         /\ \A v \in TableVNs(pre) \cup
                   UNION {TableVNs(op.SplitLRs[k]) : k \in 1..Len(LIV)} :
              Cardinality({k \in 0..Len(LIV) :
                             LET vals == IF k = 0 THEN valnos
                                         ELSE LIV[k].valnos
                             IN \E j \in 1..Len(vals) : vals[j] = v}) = 1
    ELSE /\ LR = pre
         /\ LIV = op.SplitLRs
         /\ \E i \in 1..Len(segments) :
              LET k == ClassOf(segments[i].valno) IN
              /\ k > 0
              /\ LIV[k].segments # <<>>
              /\ segments[i].start < LIV[k].segments[1].end

\* DistributeRange kept a segment and moved one behind the segment that
\* the first target held already; the value that stayed got a new id.
C29_Witness ==
  /\ mode = "once"
  /\ op.name = "DistributeRange"
  /\ err = "none"
  /\ segments # <<>>
  /\ Len(LIV[1].segments) >= 2
  /\ Len(LIV[1].valnos) = 2
  /\ \E v \in TableVNs(LR) : vni[v].id # pre.vni[v].id

\* The invariants of LiveInterval::verify on the interval I: the main
\* range is live wherever a subrange is, the lane masks of the subranges
\* are pairwise disjoint, and no subrange is empty.
IntervalOK(I) ==
  /\ \A k \in 1..Len(I.SubRanges), p \in 1..ClassTop :
       PointMap(I.SubRanges[k].segments, ClassTop)[p] # 0
         => PointMap(I.segments, ClassTop)[p] # 0
  /\ \A j \in 1..Len(I.SubRanges), k \in 1..Len(I.SubRanges) :
       j # k => I.SubRanges[j].LaneMask \cap I.SubRanges[k].LaneMask = {}
  /\ \A k \in 1..Len(I.SubRanges) : I.SubRanges[k].segments # <<>>

\* The class of the value of the main range live at slot x before the call.
MainClassAt(x) ==
  LET VNI == getVNInfoAt(pre.segments, x) IN
  IF VNI = nullptr THEN -1 ELSE EqClass[pre.vni[VNI].id + 1]

\* Before the call, every segment of a subrange lay where the main range
\* carried values of the class of the main value live at the def of the
\* segment's value.
SubRangesFollow ==
  \A k \in 1..Len(op.SubRanges) :
    \A i \in 1..Len(op.SubRanges[k].segments) :
      LET S == op.SubRanges[k].segments[i] IN
      \A x \in S.start..(S.end - 1) :
        MainClassAt(x) = MainClassAt(pre.vni[S.valno].def)

\* Before the call, every value of a subrange that was not unused had a
\* segment.
SubValuesLive ==
  \A k \in 1..Len(op.SubRanges) :
    \A j \in 1..Len(op.SubRanges[k].valnos) :
      LET v == op.SubRanges[k].valnos[j] IN
      ~pre.vni[v].unused => v \in SegVNs(op.SubRanges[k].segments)

C36_AppendKeepsInvariants ==
  (mode = "once" /\ op.name = "append" /\ err = "none"
     /\ verify(pre.segments, pre.valnos, pre.vni)) =>
    verify(segments, valnos, vni)

\* C32: removeEmptySubRanges leaves exactly the subranges that were not
\* empty, in their old order, and no empty subrange, wherever the empty
\* ones were: at the head, in the middle, in a row, or at the tail.
C32_RemoveEmptySubRanges ==
  (mode = "once" /\ op.name = "removeEmptySubRanges") =>
    /\ err = "none"
    /\ LR = pre
    /\ SubRanges = SelectSeq(op.SubRanges, LAMBDA S : S.segments # <<>>)
    /\ \A k \in 1..Len(SubRanges) : SubRanges[k].segments # <<>>

\* The list had an empty subrange at its head, two in a row in the middle
\* and one at its tail.
C32_Witness ==
  /\ mode = "once"
  /\ op.name = "removeEmptySubRanges"
  /\ Len(op.SubRanges) >= 6
  /\ op.SubRanges[1].segments = <<>>
  /\ op.SubRanges[Len(op.SubRanges)].segments = <<>>
  /\ \E k \in 2..(Len(op.SubRanges) - 2) :
       /\ op.SubRanges[k].segments = <<>>
       /\ op.SubRanges[k + 1].segments = <<>>
       /\ \E j \in 2..(k - 1) : op.SubRanges[j].segments # <<>>
       /\ \E j \in (k + 2)..(Len(op.SubRanges) - 1) : op.SubRanges[j].segments # <<>>
  /\ Len(SubRanges) >= 2

\* C33: flushSegmentSet, called when the segment set exists and the vector
\* is empty, leaves in the vector exactly the set's segments in ascending
\* order, no segment set, and a range on which verify() passes; called
\* when the vector is not empty or there is no set it fails with
\* AppendPrecondition and changes nothing.
C33_FlushSegmentSet ==
  (mode = "set" /\ op.name = "flushSegmentSet") =>
    IF op.segmentSet # <<>> /\ pre.segments = <<>>
    THEN /\ err = "none"
         /\ segments = op.segmentSet[1]
         /\ \A k \in 1..(Len(segments) - 1) :
              SegmentLess(segments[k], segments[k + 1])
         /\ segmentSet = <<>>
         /\ Operands = <<>>
         /\ verify(segments, valnos, vni)
    ELSE /\ err = "AppendPrecondition"
         /\ segments = pre.segments
         /\ segmentSet = op.segmentSet

\* C35: after a sequence of createDeadDef, extendInBlock, addSegment and
\* LiveRangeUpdater::add calls on a LiveRange with a segment set, none of
\* which fired an assert on it or on the vector-backed range given the same
\* calls, every call has returned what it returned on the vector, the
\* updater is not dirty, and after flushSegmentSet the segments and the
\* value numbers are those of the vector-backed range.
C35_SetVectorEquivalent ==
  (mode = "set" /\ err = "none" /\ expect.err = "none") =>
    /\ (op.name \in {"createDeadDef", "extendInBlock"} =>
          op.ret = expect.ret)
    /\ (op.name = "add" => ~isValid(LastStart))
    /\ valnos = expect.valnos
    /\ vni = expect.vni
    /\ (op.name = "flushSegmentSet" => segments = expect.segments)
C35_Witness ==
  /\ mode = "set" /\ err = "none" /\ expect.err = "none"
  /\ op.name = "flushSegmentSet"
  /\ op.segmentSet # <<>>
  /\ Len(segments) >= 2
  /\ Len(valnos) >= 2
  /\ \E k \in 1..Len(segments) :
       segments[k].end # getDeadSlot(segments[k].start)

\* The three areas of a dirty updater
Area1 == SubSeq(segments, 1, WriteI - 1)
Area2 == SubSeq(segments, ReadI, Len(segments))

\* A precedes B and cannot coalesce with it
Precedes(A, B) == A.end <= B.start /\ (A.end = B.start => A.valno # B.valno)

\* The segments of an area are fully ordered and coalesced
OrderedCoalesced(area) ==
  \A k \in 1..(Len(area) - 1) : Precedes(area[k], area[k + 1])

\* The invariants the updater keeps while dirty, but for the order of the
\* iterators
DirtyAreas ==
  /\ OrderedCoalesced(Area1)
  /\ OrderedCoalesced(Area2)
  /\ OrderedCoalesced(Spills)
  /\ \A a \in 1..Len(Area1), b \in 1..Len(Area2) : Precedes(Area1[a], Area2[b])
  /\ \A s \in 1..Len(Spills), b \in 1..Len(Area2) :
       Precedes(Spills[s], Area2[b])
  /\ \A s \in 1..Len(Spills), a \in 1..Len(Area1) :
       Precedes(Spills[s], Area1[a]) \/ Precedes(Area1[a], Spills[s])
  /\ (Spills # <<>> => Spills[Len(Spills)].start <= LastStart)
  /\ (WriteI > 1 => segments[WriteI - 1].start <= LastStart)

IteratorsOrdered == 1 <= WriteI /\ WriteI <= ReadI /\ ReadI <= Len(segments) + 1

RECURSIVE FirstLiveSubRange(_, _, _)
FirstLiveSubRange(subs, MO, k) ==
  IF k > Len(subs) THEN 0
  ELSE IF /\ subs[k].LaneMask \cap MO.LaneMask # {}
          /\ getVNInfoAt(subs[k].segments, operandSlot(MO)) # nullptr
  THEN k
  ELSE FirstLiveSubRange(subs, MO, k + 1)

\* The register of the class of the value the subrange k has at the
\* operand's slot
ClassReg(MO, k) ==
  LIV[op.Classes[getEqClass(op.SubRangeInfos[k].ConEQ,
                            vni[getVNInfoAt(SubRanges[k].segments,
                                            operandSlot(MO))])
                   + op.SubRangeInfos[k].Index + 1] + 1].reg

\* C31: after rewriteOperands every def or reading operand names the
\* register of the class of the value live at the operand's slot in the
\* first subrange that meets its lane mask and has a value there; an
\* operand for which there is no such subrange has made rewriteOperands
\* read no element outside Intervals, so no assert has fired and the
\* operand names a register of Intervals.
C31_RewriteOperands ==
  (mode = "once" /\ op.name = "rewriteOperands") =>
    /\ err = "none"
    /\ \A m \in 1..Len(Operands) :
         (op.Operands[m].isDef \/ op.Operands[m].readsReg) =>
           /\ \E k \in 1..Len(LIV) : Operands[m].reg = LIV[k].reg
           /\ FirstLiveSubRange(SubRanges, op.Operands[m], 1) # 0 =>
                Operands[m].reg =
                  ClassReg(op.Operands[m],
                           FirstLiveSubRange(SubRanges, op.Operands[m], 1))

====
